---- MODULE Spec2Model ----
(***************************************************************************)
(* Model of the schema drift detection and reconciliation engine of        *)
(* src/app.py: structural diffing of two schemas, KPI validation,          *)
(* test-case validation and the SQL qualification they use.                *)
(***************************************************************************)
EXTENDS Integers, Sequences, FiniteSets, TLC

VARIABLES
    catalog,    \* the warehouse's metadata: schema -> table -> column definitions
    ret,        \* what the last call of a structural-diff operation returned
    q,          \* the last SQL qualification: its inputs and the query it built
    tc,         \* the last validate_test_cases call: its inputs and what it returned
    kpi,        \* the last KPI validation call: the warehouse it ran on and what it returned
    cl,         \* the schemas of the database, and what the last clone_schema call returned
    client,     \* the connection handle and catalog, and what the last catalog call returned
    warehouse,  \* the rows of the warehouse's tables, the stored SQL texts, the statements sent
    handler,    \* the top-level handler called, its connection handle and how it ended
    session     \* the login page: the stored handle, what is visible, the connections opened

vars == <<catalog, ret, q, tc, kpi, cl, client, warehouse, handler, session>>

(***************************************************************************)
(* Generic helpers.                                                        *)
(***************************************************************************)
\* every ordering of the finite set S, as a sequence without repetition
Perms(S) ==
    {s \in [1..Cardinality(S) -> S] : \A i, j \in DOMAIN s : s[i] = s[j] => i = j}

\* the subsequence of `order` whose elements are in S
RECURSIVE Restrict(_, _)
Restrict(order, S) ==
    IF order = <<>> THEN <<>>
    ELSE IF Head(order) \in S THEN <<Head(order)>> \o Restrict(Tail(order), S)
    ELSE Restrict(Tail(order), S)

(***************************************************************************)
(* The warehouse catalog (external system).  Two schemas of one database,  *)
(* a fixed universe of table and column names and of declared type strings.*)
(***************************************************************************)
Schemas == {"SRC", "CLN"}
TableNames == {"CUSTOMERS", "ORDERS"}
\* ascending order of the table names, as ORDER BY table_name sorts them
TableNameOrder == <<"CUSTOMERS", "ORDERS">>
ColNames == {"ID", "AMOUNT"}
NoCol == "<absent>"
TypesOf(col) ==
    IF col = "ID" THEN {"NUMBER(38,0)"} ELSE {"VARCHAR(16)", "VARCHAR(32)"}

\* a table's column definitions: every column absent or with a declared type;
\* a table that exists has at least one column
ColumnDefs ==
    {d \in [ColNames -> {NoCol} \cup UNION {TypesOf(c) : c \in ColNames}] :
        /\ \A c \in ColNames : d[c] # NoCol => d[c] \in TypesOf(c)
        /\ \E c \in ColNames : d[c] # NoCol}
NoColumns == [c \in ColNames |-> NoCol]
TableStates ==
    {[exists |-> TRUE, cols |-> d] : d \in ColumnDefs}
        \cup {[exists |-> FALSE, cols |-> NoColumns]}
Catalogs == [Schemas -> [TableNames -> TableStates]]

\* SELECT table_name FROM information_schema.tables WHERE table_schema = schema
InformationSchemaTables(cat, schema) ==
    {t \in TableNames : cat[schema][t].exists}

\* DESCRIBE TABLE db.schema.table, as the dict {row[0]: row[1]} built from it
DescribeTable(cat, schema, table) ==
    [c \in {c \in ColNames : cat[schema][table].cols[c] # NoCol} |->
        cat[schema][table].cols[c]]

(***************************************************************************)
(* compare_table_differences                                               *)
(***************************************************************************)
TableDropped == "Missing in source - Table Dropped"
TableAdded == "Missing in clone - Table Added"
PresentInBoth == "Present in both"
\* ascending order of the labels, as ORDER BY difference sorts them
DifferenceOrder == <<TableAdded, TableDropped, PresentInBoth>>

\* the CASE expression of the query: s_null / c_null say which side of the
\* full outer join is NULL
SwappedTableDifference(s_null, c_null) ==
    IF s_null THEN TableAdded
    ELSE IF c_null THEN TableDropped
    ELSE PresentInBoth

TableDifference(s_null, c_null) ==
    IF s_null THEN TableDropped
    ELSE IF c_null THEN TableAdded
    ELSE PresentInBoth

\* the WHERE clause of the query
UnfilteredWhere(s_null, c_null) == TRUE

TableDiffWhere(s_null, c_null) == s_null \/ c_null

\* the rows of the full outer join that pass the WHERE clause
TableDiffRows(cat, source_schema, clone_schema) ==
    LET s == InformationSchemaTables(cat, source_schema)
        c == InformationSchemaTables(cat, clone_schema)
    IN  {[Table |-> t, Difference |-> TableDifference(t \notin s, t \notin c)] :
            t \in {t \in s \cup c : TableDiffWhere(t \notin s, t \notin c)}}

\* ORDER BY difference, table_name
RECURSIVE OrderByDifference(_, _)
OrderByDifference(rows, labels) ==
    IF labels = <<>> THEN <<>>
    ELSE LET names == {r.Table : r \in {r \in rows : r.Difference = Head(labels)}}
             part == Restrict(TableNameOrder, names)
         IN  [i \in 1..Len(part) |-> [Table |-> part[i], Difference |-> Head(labels)]]
                \o OrderByDifference(rows, Tail(labels))

compare_table_differences(cat, source_schema, clone_schema) ==
    OrderByDifference(TableDiffRows(cat, source_schema, clone_schema), DifferenceOrder)

(***************************************************************************)
(* compare_column_differences                                              *)
(***************************************************************************)
ColumnDropped == "Missing in source - Column Dropped"
ColumnAdded == "Missing in clone - Column Added"
DataTypeChanged == "Data Type Changed"
None == "None"
NoFailure == <<"-", "-">>

\* the common-tables query: inner join of the two schemas' tables on table_name
LeftJoinTables(cat, source_schema, clone_schema) ==
    InformationSchemaTables(cat, source_schema)

CommonTables(cat, source_schema, clone_schema) ==
    InformationSchemaTables(cat, source_schema)
        \cap InformationSchemaTables(cat, clone_schema)

\* the comparison of the two declared type strings of a column present in both
TypeDiffers(source_type, clone_type) == source_type # clone_type

\* the rows one column contributes: <<column_diff rows, datatype_diff rows>>
SwappedColumnRows(table, col, source_cols, clone_cols) ==
    IF col \notin DOMAIN source_cols THEN
        << <<[Table |-> table, Column |-> col, Difference |-> ColumnAdded,
              SourceDataType |-> None, CloneDataType |-> clone_cols[col]]>>, <<>> >>
    ELSE IF col \notin DOMAIN clone_cols THEN
        << <<[Table |-> table, Column |-> col, Difference |-> ColumnDropped,
              SourceDataType |-> source_cols[col], CloneDataType |-> None]>>, <<>> >>
    ELSE IF TypeDiffers(source_cols[col], clone_cols[col]) THEN
        << <<>>, <<[Table |-> table, Column |-> col,
                    SourceDataType |-> source_cols[col],
                    CloneDataType |-> clone_cols[col],
                    Difference |-> DataTypeChanged]>> >>
    ELSE << <<>>, <<>> >>

\* a variant that also lists a changed type among the column differences
TypeChangeInBoth(table, col, source_cols, clone_cols) ==
    IF col \notin DOMAIN source_cols THEN
        << <<[Table |-> table, Column |-> col, Difference |-> ColumnDropped,
              SourceDataType |-> None, CloneDataType |-> clone_cols[col]]>>, <<>> >>
    ELSE IF col \notin DOMAIN clone_cols THEN
        << <<[Table |-> table, Column |-> col, Difference |-> ColumnAdded,
              SourceDataType |-> source_cols[col], CloneDataType |-> None]>>, <<>> >>
    ELSE IF TypeDiffers(source_cols[col], clone_cols[col]) THEN
        << <<[Table |-> table, Column |-> col, Difference |-> DataTypeChanged,
              SourceDataType |-> source_cols[col],
              CloneDataType |-> clone_cols[col]]>>,
           <<[Table |-> table, Column |-> col,
              SourceDataType |-> source_cols[col],
              CloneDataType |-> clone_cols[col],
              Difference |-> DataTypeChanged]>> >>
    ELSE << <<>>, <<>> >>

ColumnRows(table, col, source_cols, clone_cols) ==
    IF col \notin DOMAIN source_cols THEN
        << <<[Table |-> table, Column |-> col, Difference |-> ColumnDropped,
              SourceDataType |-> None, CloneDataType |-> clone_cols[col]]>>, <<>> >>
    ELSE IF col \notin DOMAIN clone_cols THEN
        << <<[Table |-> table, Column |-> col, Difference |-> ColumnAdded,
              SourceDataType |-> source_cols[col], CloneDataType |-> None]>>, <<>> >>
    ELSE IF TypeDiffers(source_cols[col], clone_cols[col]) THEN
        << <<>>, <<[Table |-> table, Column |-> col,
                    SourceDataType |-> source_cols[col],
                    CloneDataType |-> clone_cols[col],
                    Difference |-> DataTypeChanged]>> >>
    ELSE << <<>>, <<>> >>

\* for col in all_columns: ... (cols is the iteration order of the set)
RECURSIVE ColumnLoop(_, _, _, _, _)
ColumnLoop(table, cols, source_cols, clone_cols, acc) ==
    IF cols = <<>> THEN acc
    ELSE LET rows == ColumnRows(table, Head(cols), source_cols, clone_cols)
         IN  ColumnLoop(table, Tail(cols), source_cols, clone_cols,
                        <<acc[1] \o rows[1], acc[2] \o rows[2]>>)

\* for table in common_tables: ... ; `failing` is the <<schema, table>> whose
\* DESCRIBE raises (NoFailure: none does); col_order is the iteration order of
\* a set of column names in this process
RECURSIVE TableLoop(_, _, _, _, _, _, _)
TableLoop(cat, source_schema, clone_schema, tables, col_order, failing, acc) ==
    IF tables = <<>> THEN acc
    ELSE
        LET table == Head(tables)
            d1 == Append(acc.described, <<source_schema, table>>)
            d2 == Append(d1, <<clone_schema, table>>)
        IN  IF failing = <<source_schema, table>> THEN
                [acc EXCEPT !.raised = TRUE, !.described = d1]
            ELSE IF failing = <<clone_schema, table>> THEN
                [acc EXCEPT !.raised = TRUE, !.described = d2]
            ELSE
                LET source_cols == DescribeTable(cat, source_schema, table)
                    clone_cols == DescribeTable(cat, clone_schema, table)
                    all_columns == DOMAIN source_cols \cup DOMAIN clone_cols
                    rows == ColumnLoop(table, Restrict(col_order, all_columns),
                                       source_cols, clone_cols, << <<>>, <<>> >>)
                IN  TableLoop(cat, source_schema, clone_schema, Tail(tables),
                              col_order, failing,
                              [acc EXCEPT !.column_diff = @ \o rows[1],
                                          !.datatype_diff = @ \o rows[2],
                                          !.described = d2])

\* the call as a whole; raised = TRUE: an exception left the function and
\* nothing was returned.  table_order is the order in which the warehouse
\* returns the common tables (the query has no ORDER BY).
compare_column_differences(cat, source_schema, clone_schema, table_order, col_order, failing) ==
    TableLoop(cat, source_schema, clone_schema,
              Restrict(table_order, CommonTables(cat, source_schema, clone_schema)),
              col_order, failing,
              [raised |-> FALSE, column_diff |-> <<>>, datatype_diff |-> <<>>,
               described |-> <<>>])

(***************************************************************************)
(* run_validation: the handler of the Validate button                      *)
(***************************************************************************)
ValidationCompleted == "Validation completed successfully!"
ValidationFailed == "Validation failed"

\* frame.assign(Validation_Type=...) as it stands in the concatenation: the
\* columns a frame lacks are NaN there
NaN == "NaN"
AssignValidationType(rows, validation_type) ==
    [i \in DOMAIN rows |->
        [Table |-> rows[i].Table,
         Column |-> IF "Column" \in DOMAIN rows[i] THEN rows[i].Column ELSE NaN,
         Difference |-> rows[i].Difference,
         SourceDataType |-> IF "SourceDataType" \in DOMAIN rows[i]
                                THEN rows[i].SourceDataType ELSE NaN,
         CloneDataType |-> IF "CloneDataType" \in DOMAIN rows[i]
                                THEN rows[i].CloneDataType ELSE NaN,
         Validation_Type |-> validation_type]]
TableDifferences == "Table Differences"
ColumnDifferences == "Column Differences"
DataTypeDifferences == "Data Type Differences"

\* combined_df = pd.concat([...])
CombinedDf(table_diff, column_diff, datatype_diff) ==
    AssignValidationType(table_diff, TableDifferences)
    \o AssignValidationType(column_diff, ColumnDifferences)
    \o AssignValidationType(datatype_diff, DataTypeDifferences)

run_validation(cat, source_schema, clone_schema, table_order, col_order, failing) ==
    LET table_diff == compare_table_differences(cat, source_schema, clone_schema)
        cd == compare_column_differences(cat, source_schema, clone_schema,
                                         table_order, col_order, failing)
    IN  IF cd.raised THEN
            [raised |-> FALSE, table_diff |-> <<>>, column_diff |-> <<>>,
             datatype_diff |-> <<>>, described |-> cd.described,
             status |-> ValidationFailed, combined_df |-> <<>>]
        ELSE
            [raised |-> FALSE, table_diff |-> table_diff,
             column_diff |-> cd.column_diff, datatype_diff |-> cd.datatype_diff,
             described |-> cd.described, status |-> ValidationCompleted,
             combined_df |-> CombinedDf(table_diff, cd.column_diff, cd.datatype_diff)]

(***************************************************************************)
(* The structural-diff state machine: the catalog is what the warehouse    *)
(* holds; every action is one call made by an idle session (the calls keep  *)
(* no state between them), and ret is what it returned.                    *)
(***************************************************************************)
NoCall ==
    [op |-> "none", source_schema |-> "-", clone_schema |-> "-", raised |-> FALSE,
     table_diff |-> <<>>, column_diff |-> <<>>, datatype_diff |-> <<>>,
     described |-> <<>>, status |-> "-", combined_df |-> <<>>]

InitDiff ==
    /\ catalog \in Catalogs
    /\ ret = NoCall
    /\ q = [path |-> "none", sql |-> "", schema |-> "-", table_name |-> "-", qualified |-> ""]
    /\ tc = [op |-> "none"]
    /\ kpi = [op |-> "none"]
    /\ cl = [op |-> "none"]
    /\ client = [op |-> "none"]
    /\ warehouse = [op |-> "none"]
    /\ handler = [op |-> "none"]
    /\ session = [op |-> "none"]

CallCompareTableDifferences ==
    /\ ret = NoCall
    /\ \E s \in Schemas, c \in Schemas :
        /\ ret' = [NoCall EXCEPT !.op = "compare_table_differences",
                                 !.source_schema = s, !.clone_schema = c,
                                 !.table_diff = compare_table_differences(catalog, s, c)]
        /\ UNCHANGED <<catalog, q, tc, kpi, cl, client, warehouse, handler, session>>

DescribeFailures == {NoFailure} \cup (Schemas \X TableNames)

CallCompareColumnDifferences ==
    /\ ret = NoCall
    /\ \E s \in Schemas, c \in Schemas, table_order \in Perms(TableNames),
       col_order \in Perms(ColNames), failing \in DescribeFailures :
        LET r == compare_column_differences(catalog, s, c, table_order, col_order, failing)
        IN  /\ ret' = [NoCall EXCEPT !.op = "compare_column_differences",
                                     !.source_schema = s, !.clone_schema = c,
                                     !.raised = r.raised,
                                     !.column_diff = IF r.raised THEN <<>> ELSE r.column_diff,
                                     !.datatype_diff = IF r.raised THEN <<>> ELSE r.datatype_diff,
                                     !.described = r.described]
            /\ UNCHANGED <<catalog, q, tc, kpi, cl, client, warehouse, handler, session>>

CallRunValidation ==
    /\ ret = NoCall
    /\ \E s \in Schemas, c \in Schemas, table_order \in Perms(TableNames),
       col_order \in Perms(ColNames), failing \in DescribeFailures :
        LET r == run_validation(catalog, s, c, table_order, col_order, failing)
        IN  /\ ret' = [NoCall EXCEPT !.op = "run_validation",
                                     !.source_schema = s, !.clone_schema = c,
                                     !.table_diff = r.table_diff,
                                     !.column_diff = r.column_diff,
                                     !.datatype_diff = r.datatype_diff,
                                     !.described = r.described,
                                     !.status = r.status,
                                     !.combined_df = r.combined_df]
            /\ UNCHANGED <<catalog, q, tc, kpi, cl, client, warehouse, handler, session>>

NextDiff ==
    \/ CallCompareTableDifferences
    \/ CallCompareColumnDifferences
    \/ CallRunValidation

SpecDiff == InitDiff /\ [][NextDiff]_vars

(***************************************************************************)
(* Python strings.  A str is a TLA+ string; Head, Tail, SubSeq, Len and \o  *)
(* act on it character by character.                                       *)
(***************************************************************************)
LowerCase == "abcdefghijklmnopqrstuvwxyz"
UpperCase == "ABCDEFGHIJKLMNOPQRSTUVWXYZ"
Digits == "0123456789"
CharsOf(s) == {SubSeq(s, i, i) : i \in 1..Len(s)}
\* the characters \w matches (ASCII)
WordChars == CharsOf(LowerCase) \cup CharsOf(UpperCase) \cup CharsOf(Digits) \cup {"_"}
IsWordChar(c) == c \in WordChars
RECURSIVE CaseTable(_)
CaseTable(i) ==
    IF i = 0 THEN <<>>
    ELSE (SubSeq(LowerCase, i, i) :> SubSeq(UpperCase, i, i)) @@ CaseTable(i - 1)
UpperOf == CaseTable(Len(LowerCase))
\* case folding of one character, as re.IGNORECASE compares
Fold(c) == IF c \in DOMAIN UpperOf THEN UpperOf[c] ELSE c
\* whether two strings are equal ignoring case
RECURSIVE EqualsIgnoringCase(_, _)
EqualsIgnoringCase(a, b) ==
    \/ a = "" /\ b = ""
    \/ /\ a # "" /\ b # ""
       /\ Fold(Head(a)) = Fold(Head(b))
       /\ EqualsIgnoringCase(Tail(a), Tail(b))

\* s.replace(old, new): every non-overlapping occurrence, leftmost first,
\* compared exactly (case-sensitive)
RECURSIVE StrReplace(_, _, _)
StrReplace(s, old, new) ==
    IF Len(s) < Len(old) THEN s
    ELSE IF SubSeq(s, 1, Len(old)) = old
        THEN new \o StrReplace(SubSeq(s, Len(old) + 1, Len(s)), old, new)
    ELSE Head(s) \o StrReplace(Tail(s), old, new)

\* \b between the characters before and after: exactly one of them is a word
\* character ("" stands for the start or the end of the string)
WordBoundary(before, after) ==
    (before # "" /\ IsWordChar(before)) # (after # "" /\ IsWordChar(after))

\* whether \b<name>\b matches at the start of s, prev being the character
\* before s; the name is matched literally, ignoring case
MatchesWord(prev, s, name) ==
    LET n == Len(name) IN
    /\ Len(s) >= n
    /\ WordBoundary(prev, Head(s))
    /\ EqualsIgnoringCase(SubSeq(s, 1, n), name)
    /\ WordBoundary(SubSeq(s, n, n), IF Len(s) > n THEN SubSeq(s, n + 1, n + 1) ELSE "")

\* re.sub(rf'\b{name}\b', repl, s, flags=re.IGNORECASE) for a name made of
\* word characters: every non-overlapping match, leftmost first
RECURSIVE ReSubFrom(_, _, _, _)
ReSubFrom(prev, s, name, repl) ==
    IF s = "" THEN ""
    ELSE IF MatchesWord(prev, s, name)
        THEN repl \o ReSubFrom(SubSeq(s, Len(name), Len(name)),
                               SubSeq(s, Len(name) + 1, Len(s)), name, repl)
    ELSE Head(s) \o ReSubFrom(Head(s), Tail(s), name, repl)

ReSubWord(s, name, repl) == ReSubFrom("", s, name, repl)

(***************************************************************************)
(* The three SQL qualifications of the engine.                             *)
(***************************************************************************)
\* validate_kpis: two chained str.replace calls on 'FROM order_data' and
\* 'FROM ORDER_DATA'
QualifyKpi(kpi_sql, database, schema) ==
    StrReplace(
        StrReplace(kpi_sql, "FROM order_data",
                   "FROM " \o database \o "." \o schema \o ".ORDER_DATA"),
        "FROM ORDER_DATA", "FROM " \o database \o "." \o schema \o ".ORDER_DATA")

\* validate_selected_kpis: re.sub(r'\bORDER_DATA\b', ..., flags=re.IGNORECASE)
QualifySelectedKpi(kpi_sql, database, schema) ==
    ReSubWord(kpi_sql, "ORDER_DATA", database \o "." \o schema \o ".ORDER_DATA")

\* validate_test_cases: re.sub(rf'\b{table_name}\b', ..., flags=re.IGNORECASE)
QualifyTestSql(sql, database, schema, table_name) ==
    ReSubWord(sql, table_name, database \o "." \o schema \o "." \o table_name)

(***************************************************************************)
(* The qualification state machine: a SQL text is drawn from fragments and *)
(* one of the three qualifications is applied to it.                       *)
(***************************************************************************)
MaxFrags == 3
Database == "D"
SqlHeads == {"SELECT COUNT(*) FROM ", "select count(*) from "}
SqlFragments ==
    {"order_data", "ORDER_DATA", "Order_Data", "my_order_data_2", "ORDER_DATA_2",
     " JOIN ", " WHERE x=1", "S."}
RECURSIVE Concat(_)
Concat(frags) == IF frags = <<>> THEN "" ELSE Head(frags) \o Concat(Tail(frags))
\* a SELECT head followed by one to MaxFrags fragments
SqlTexts ==
    {h \o Concat(f) :
        h \in SqlHeads, f \in UNION {[1..n -> SqlFragments] : n \in 1..MaxFrags}}
QualifySchemas == {"S", "C"}
TestTableNames == {"ORDER_DATA", "Order_Data"}

NoQualification ==
    [path |-> "none", sql |-> "", schema |-> "-", table_name |-> "-", qualified |-> ""]

InitQualify ==
    /\ q \in {[NoQualification EXCEPT !.sql = t] : t \in SqlTexts}
    /\ catalog = [s \in Schemas |-> [t \in TableNames |-> [exists |-> FALSE, cols |-> NoColumns]]]
    /\ ret = NoCall
    /\ tc = [op |-> "none"]
    /\ kpi = [op |-> "none"]
    /\ cl = [op |-> "none"]
    /\ client = [op |-> "none"]
    /\ warehouse = [op |-> "none"]
    /\ handler = [op |-> "none"]
    /\ session = [op |-> "none"]

QualifyInValidateKpis ==
    /\ q.path = "none"
    /\ \E schema \in QualifySchemas :
        /\ q' = [q EXCEPT !.path = "validate_kpis", !.schema = schema,
                          !.table_name = "ORDER_DATA",
                          !.qualified = QualifyKpi(q.sql, Database, schema)]
        /\ UNCHANGED <<catalog, ret, tc, kpi, cl, client, warehouse, handler, session>>

QualifyInValidateSelectedKpis ==
    /\ q.path = "none"
    /\ \E schema \in QualifySchemas :
        /\ q' = [q EXCEPT !.path = "validate_selected_kpis", !.schema = schema,
                          !.table_name = "ORDER_DATA",
                          !.qualified = QualifySelectedKpi(q.sql, Database, schema)]
        /\ UNCHANGED <<catalog, ret, tc, kpi, cl, client, warehouse, handler, session>>

QualifyInValidateTestCases ==
    /\ q.path = "none"
    /\ \E schema \in QualifySchemas, table_name \in TestTableNames :
        /\ q' = [q EXCEPT !.path = "validate_test_cases", !.schema = schema,
                          !.table_name = table_name,
                          !.qualified = QualifyTestSql(q.sql, Database, schema, table_name)]
        /\ UNCHANGED <<catalog, ret, tc, kpi, cl, client, warehouse, handler, session>>

NextQualify ==
    \/ QualifyInValidateKpis
    \/ QualifyInValidateSelectedKpis
    \/ QualifyInValidateTestCases

SpecQualify == InitQualify /\ [][NextQualify]_vars

(***************************************************************************)
(* Python values a cursor returns, and str() of them.                      *)
(***************************************************************************)
\* the int hi * 2^53 + lo, kept in two parts
PyInt(hi, lo) == [t |-> "int", hi |-> hi, lo |-> lo]
PyString(s) == [t |-> "str", s |-> s]
PyNone == [t |-> "NoneType"]
\* the double hi * 2^53 + num / den, and float('inf')
PyFloat(hi, num, den) == [t |-> "float", k |-> "fin", hi |-> hi, num |-> num, den |-> den]
PyInf == [t |-> "float", k |-> "inf"]
\* the decimal.Decimal the connector returns for a NUMBER with a scale, by its digits
PyDecimal(digits) == [t |-> "Decimal", digits |-> digits]

\* n / d rounded to the nearest integer, ties to the even one (d > 0)
RoundHalfEven(n, d) ==
    LET quot == n \div d
        rem == n % d
    IN  IF 2 * rem < d THEN quot
        ELSE IF 2 * rem > d THEN quot + 1
        ELSE IF quot % 2 = 0 THEN quot ELSE quot + 1

\* float(v) of an int or a float: a double has 53 bits, so from 2^53 on only
\* every second integer exists and the others round to the even neighbour
Float(v) ==
    IF v.t = "float" THEN v
    ELSE IF v.hi = 0 THEN PyFloat(0, v.lo, 1)
    ELSE PyFloat(v.hi, 2 * RoundHalfEven(v.lo, 2), 1)

\* a - b of two doubles (exact where the result is a double: |a - b| < 2^53)
FloatSub(a, b) == PyFloat(a.hi - b.hi, a.num * b.den - b.num * a.den, a.den * b.den)

FloatIsZero(a) == a.k = "fin" /\ a.hi = 0 /\ a.num = 0

\* (a / b) * 100 of two doubles, b # 0 (a and b below 2^53 unless a is 0)
FloatPercentOf(a, b) ==
    IF FloatIsZero(a) THEN PyFloat(0, 0, 1)
    ELSE PyFloat(0, a.num * b.den * 100, a.den * b.num)

\* round(a, 2)
Round2(a) ==
    IF a.k = "inf" \/ a.hi # 0 THEN a
    ELSE IF a.den < 0 THEN PyFloat(0, RoundHalfEven(0 - a.num * 100, 0 - a.den), 100)
    ELSE PyFloat(0, RoundHalfEven(a.num * 100, a.den), 100)

\* str() of a double with at most two decimals: the shortest digits, at least one decimal
FloatStr(a) ==
    IF a.k = "inf" THEN "inf"
    ELSE IF a.hi = 1 THEN "90071992547409" \o ToString(92 + a.num \div a.den) \o ".0"
    ELSE
        LET h == (a.num * 100) \div a.den
            abs == IF h < 0 THEN 0 - h ELSE h
            frac == abs % 100
        IN  (IF h < 0 THEN "-" ELSE "") \o ToString(abs \div 100) \o "."
            \o (IF frac % 10 = 0 THEN ToString(frac \div 10)
                ELSE IF frac < 10 THEN "0" \o ToString(frac)
                ELSE ToString(frac))

\* str(v)
Str(v) ==
    IF v.t = "str" THEN v.s
    ELSE IF v.t = "NoneType" THEN "None"
    ELSE IF v.t = "Decimal" THEN v.digits
    ELSE IF v.t = "float" THEN FloatStr(v)
    ELSE IF v.hi = 0 THEN ToString(v.lo)
    ELSE "90071992547409" \o ToString(92 + v.lo)     \* 2^53 = 9007199254740992

\* the characters str.strip() removes
Whitespace == {" ", "\t", "\n", "\r"}
RECURSIVE LStrip(_)
LStrip(s) == IF s # "" /\ Head(s) \in Whitespace THEN LStrip(Tail(s)) ELSE s
RECURSIVE RStrip(_)
RStrip(s) ==
    IF s # "" /\ SubSeq(s, Len(s), Len(s)) \in Whitespace
        THEN RStrip(SubSeq(s, 1, Len(s) - 1))
    ELSE s
\* s.strip()
Strip(s) == RStrip(LStrip(s))

\* s.split('\n')[0]
RECURSIVE FirstLine(_)
FirstLine(s) ==
    IF s = "" \/ Head(s) = "\n" THEN "" ELSE Head(s) \o FirstLine(Tail(s))

(***************************************************************************)
(* validate_test_cases                                                     *)
(***************************************************************************)
Pass == "PASS"
Fail == "FAIL"
PermissionError == "PERMISSION ERROR"
ExecutionError == "EXECUTION ERROR"
NoTestCasesSelected == "No test cases selected"
TestValidationCompleted == "Validation completed"

\* what the warehouse answers to the statements of one test case: the access
\* probe raises (denied), the assertion SQL raises (error, with its message),
\* it returns no row (norow) or a first row whose first column is `value`
Denied == [kind |-> "denied"]
Raises(message) == [kind |-> "error", message |-> message]
NoRow == [kind |-> "norow"]
FirstRow(value) == [kind |-> "row", value |-> value]

\* verify_table_access: the trial SELECT, and whether it succeeded
AccessProbe(database, schema, table_name) ==
    "SELECT 1 FROM " \o database \o "." \o schema \o "." \o table_name \o " LIMIT 1"

verify_table_access(answer) == answer.kind # "denied"

\* a variant that stringifies the missing row
NoneForNoRow(answer) == IF answer.kind = "row" THEN Str(answer.value) ELSE "None"

\* actual_result = str(result[0]) if result else "0"
ActualResult(answer) == IF answer.kind = "row" THEN Str(answer.value) ELSE "0"

\* the comparison that decides PASS or FAIL
StrippedEquals(actual_result, expected) == Strip(actual_result) = expected

ResultEquals(actual_result, expected) == actual_result = expected

\* the row one test case contributes
TestCaseRow(case, answer) ==
    LET expected == Strip(Str(case.expected)) IN
    IF ~verify_table_access(answer) THEN
        [TEST_CASE |-> case.abbrev, CATEGORY |-> case.table_name,
         EXPECTED_RESULT |-> expected,
         ACTUAL_RESULT |-> "ACCESS DENIED: No permissions on " \o case.table_name,
         STATUS |-> PermissionError]
    ELSE IF answer.kind = "error" THEN
        [TEST_CASE |-> case.abbrev, CATEGORY |-> case.table_name,
         EXPECTED_RESULT |-> expected,
         ACTUAL_RESULT |-> "QUERY ERROR: " \o FirstLine(answer.message),
         STATUS |-> ExecutionError]
    ELSE
        [TEST_CASE |-> case.abbrev, CATEGORY |-> case.table_name,
         EXPECTED_RESULT |-> expected,
         ACTUAL_RESULT |-> ActualResult(answer),
         STATUS |-> IF ResultEquals(ActualResult(answer), expected) THEN Pass ELSE Fail]

\* a variant that sends the assertion SQL whatever the probe said
AssertionRegardless(database, schema, case, answer, i) ==
    <<[case |-> i, stmt |-> "probe",
       sql |-> AccessProbe(database, schema, case.table_name)],
      [case |-> i, stmt |-> "assertion",
       sql |-> QualifyTestSql(case.sql, database, schema, case.table_name)]>>

\* the statements one test case sends to the warehouse, in order
TestCaseStatements(database, schema, case, answer, i) ==
    <<[case |-> i, stmt |-> "probe",
       sql |-> AccessProbe(database, schema, case.table_name)]>>
    \o IF verify_table_access(answer)
        THEN <<[case |-> i, stmt |-> "assertion",
                sql |-> QualifyTestSql(case.sql, database, schema, case.table_name)]>>
        ELSE <<>>

\* whether the loop goes on to the next case after this one (every branch of
\* the body ends in the append of a row: continue, or the end of the body)
StopsAtFailure(answer) == answer.kind \in {"row", "norow"}

ContinuesAfter(answer) == TRUE

\* for case in test_cases: ...
RECURSIVE TestCaseLoop(_, _, _, _, _, _)
TestCaseLoop(database, schema, test_cases, answers, i, acc) ==
    IF i > Len(test_cases) THEN acc
    ELSE
        LET next ==
                [acc EXCEPT
                    !.results = Append(@, TestCaseRow(test_cases[i], answers[i])),
                    !.executed = @ \o TestCaseStatements(database, schema,
                                                         test_cases[i], answers[i], i)]
        IN  IF ContinuesAfter(answers[i])
                THEN TestCaseLoop(database, schema, test_cases, answers, i + 1, next)
            ELSE next

validate_test_cases(database, schema, test_cases, answers) ==
    IF test_cases = <<>> THEN
        [results |-> <<>>, status |-> NoTestCasesSelected, button |-> FALSE,
         executed |-> <<>>]
    ELSE
        TestCaseLoop(database, schema, test_cases, answers, 1,
                     [results |-> <<>>, status |-> TestValidationCompleted,
                      button |-> TRUE, executed |-> <<>>])

(***************************************************************************)
(* The test-case state machine: a call of validate_test_cases with a list  *)
(* of stored test cases, the warehouse answering each case's statements.   *)
(***************************************************************************)
MaxCases == 2
\* the stored test cases (TEST_ABBREVIATION, TABLE_NAME, SQL_CODE and
\* EXPECTED_RESULT as stored, untrimmed)
TestCases ==
    {[abbrev |-> "ORD_CNT", table_name |-> "ORDERS",
      sql |-> "SELECT COUNT(*) FROM orders", expected |-> PyString(" 42 ")],
     [abbrev |-> "ORD_NEG", table_name |-> "ORDERS",
      sql |-> "SELECT ID FROM Orders WHERE ID < 0", expected |-> PyString("0")],
     [abbrev |-> "CUST_MAX", table_name |-> "CUSTOMERS",
      sql |-> "SELECT MAX(NAME) FROM CUSTOMERS", expected |-> PyString("abc")]}
TestAnswers ==
    {Denied, Raises("SQL compilation error:\nsyntax error line 1"), NoRow,
     FirstRow(PyInt(0, 42)), FirstRow(PyString(" 42")),
     FirstRow(PyString("abc")), FirstRow(PyString("ABC"))}
TestSchema == "S"

NoTestCall == [op |-> "none"]

\* the test cases handed to the call are drawn first
InitTest ==
    /\ tc \in {[op |-> "selected", test_cases |-> cases] :
                cases \in UNION {[1..n -> TestCases] : n \in 0..MaxCases}}
    /\ catalog = [s \in Schemas |-> [t \in TableNames |-> [exists |-> FALSE, cols |-> NoColumns]]]
    /\ ret = NoCall
    /\ q = NoQualification
    /\ kpi = [op |-> "none"]
    /\ cl = [op |-> "none"]
    /\ client = [op |-> "none"]
    /\ warehouse = [op |-> "none"]
    /\ handler = [op |-> "none"]
    /\ session = [op |-> "none"]

CallValidateTestCases ==
    /\ tc.op = "selected"
    /\ \E answers \in [1..Len(tc.test_cases) -> TestAnswers] :
            LET test_cases == tc.test_cases
                r == validate_test_cases(Database, TestSchema, test_cases, answers)
            IN  /\ tc' = [op |-> "validate_test_cases", test_cases |-> test_cases,
                          answers |-> answers, results |-> r.results,
                          status |-> r.status, button |-> r.button,
                          executed |-> r.executed]
                /\ UNCHANGED <<catalog, ret, q, kpi, cl, client, warehouse, handler, session>>

NextTest == CallValidateTestCases

SpecTest == InitTest /\ [][NextTest]_vars

(***************************************************************************)
(* validate_kpis and validate_selected_kpis                                *)
(***************************************************************************)
KpiMatch == "Match"
KpiMismatch == "Mismatch"
KpiError == "Error"
NotAvailable == PyString("N/A")
NoKpisFound == "No KPIs found in ORDER_KPIS table."
NoKpisSelected == "No KPIs selected for validation"
NoMatchingKpis == "No matching KPIs found in ORDER_KPIS table"
MissingOrderData == "Validation failed - missing ORDER_DATA table"
KpiValidationCompleted == "KPI validation completed"
KpiValidationFailed(message) == "KPI validation failed: " \o message

\* kpi_mapping.keys(), in insertion order
KpiNames ==
    <<"Total Orders", "Total Revenue", "Average Order Value", "Max Order Value",
      "Min Order Value", "Completed Orders", "Cancelled Orders",
      "Orders in April 2025", "Unique Customers">>

\* a variant that takes every name of the list, ticked or not
EveryKpiName(kpi_selections, i) == IF kpi_selections = <<>> THEN <<>> ELSE KpiNames

\* [name for name, selected in zip(kpi_mapping.keys(), kpi_selections) if selected]
RECURSIVE SelectedKpis(_, _)
SelectedKpis(kpi_selections, i) ==
    IF i > Len(kpi_selections) \/ i > Len(KpiNames) THEN <<>>
    ELSE (IF kpi_selections[i] THEN <<KpiNames[i]>> ELSE <<>>)
         \o SelectedKpis(kpi_selections, i + 1)

\* ','.join(f"'{kpi}'" for kpi in selected_kpis)
RECURSIVE JoinQuoted(_)
JoinQuoted(names) ==
    IF names = <<>> THEN ""
    ELSE "'" \o Head(names) \o "'"
         \o (IF Len(names) > 1 THEN "," ELSE "") \o JoinQuoted(Tail(names))

\* the statement that reads the KPI definitions, and the one of the selected ones
OrderKpisQuery(database, source_schema) ==
    "SELECT KPI_ID, KPI_NAME, KPI_VALUE FROM " \o database \o "." \o source_schema
    \o ".ORDER_KPIS"
SelectedKpisQuery(database, source_schema, selected_kpis) ==
    OrderKpisQuery(database, source_schema)
    \o " WHERE KPI_NAME IN (" \o JoinQuoted(selected_kpis) \o ")"

\* the rows of ORDER_KPIS the WHERE KPI_NAME IN (...) clause keeps
RECURSIVE WhereNameIn(_, _)
WhereNameIn(order_kpis, selected_kpis) ==
    IF order_kpis = <<>> THEN <<>>
    ELSE (IF \E j \in DOMAIN selected_kpis : selected_kpis[j] = Head(order_kpis).name
             THEN <<Head(order_kpis)>> ELSE <<>>)
         \o WhereNameIn(Tail(order_kpis), selected_kpis)

\* the trial SELECT on a schema's ORDER_DATA
OrderDataProbe(database, schema) ==
    "SELECT 1 FROM " \o database \o "." \o schema \o ".ORDER_DATA LIMIT 1"

\* error_msg of the short circuit
MissingMessage(source_has_table, target_has_table) ==
    "ORDER_DATA table missing in "
    \o (IF ~source_has_table /\ ~target_has_table THEN "both schemas"
        ELSE IF ~source_has_table THEN "source schema"
        ELSE "target schema")

\* if not source_has_table or not target_has_table
BothMissingOnly(source_has_table, target_has_table) ==
    ~source_has_table /\ ~target_has_table

ProbeShortCircuits(source_has_table, target_has_table) ==
    ~source_has_table \/ ~target_has_table

\* a variant that returns no rows when ORDER_DATA is missing
DropsErrorRows(kpis, error_msg) == <<>>

\* the row of a KPI when ORDER_DATA is missing
KpiErrorRow(kpi_def, error_msg) ==
    [KPI_ID |-> kpi_def.id, KPI_Name |-> kpi_def.name,
     Source_Value |-> PyString("ERROR: " \o error_msg),
     Clone_Value |-> PyString("ERROR: " \o error_msg),
     Difference |-> NotAvailable, Diff_Pct |-> NotAvailable, Status |-> KpiError]

RECURSIVE KpiErrorRows(_, _)
KpiErrorRows(kpis, error_msg) ==
    IF kpis = <<>> THEN <<>>
    ELSE <<KpiErrorRow(Head(kpis), error_msg)>> \o KpiErrorRows(Tail(kpis), error_msg)

\* the formula qualified for one schema, on each of the two paths
QualifyFormula(path, kpi_sql, database, schema) ==
    IF path = "validate_kpis" THEN QualifyKpi(kpi_sql, database, schema)
    ELSE QualifySelectedKpi(kpi_sql, database, schema)

\* cursor.fetchone()[0] if cursor.rowcount > 0 else None, or the sentinel
QueryResult(answer) ==
    IF answer.kind = "error" THEN PyString("QUERY_ERROR: " \o answer.message)
    ELSE IF answer.kind = "norow" THEN PyNone
    ELSE answer.value

\* isinstance(v, (int, float))
IsNumber(v) == v.t \in {"int", "float"}

\* a variant in which only two numbers can match
OnlyNumbersMatch(result_source, result_clone) ==
    IF IsNumber(result_source) /\ IsNumber(result_clone) THEN
        LET diff == FloatSub(Float(result_source), Float(result_clone)) IN
        [diff |-> diff,
         pct_diff |-> IF ~FloatIsZero(Float(result_source))
                         THEN FloatPercentOf(diff, Float(result_source))
                      ELSE PyInf,
         status |-> IF FloatIsZero(diff) THEN KpiMatch ELSE KpiMismatch]
    ELSE
        [diff |-> NotAvailable, pct_diff |-> NotAvailable, status |-> KpiMismatch]

\* diff, pct_diff and status of one KPI
KpiDifference(result_source, result_clone) ==
    IF IsNumber(result_source) /\ IsNumber(result_clone) THEN
        LET diff == FloatSub(Float(result_source), Float(result_clone)) IN
        [diff |-> diff,
         pct_diff |-> IF ~FloatIsZero(Float(result_source))
                         THEN FloatPercentOf(diff, Float(result_source))
                      ELSE PyInf,
         status |-> IF FloatIsZero(diff) THEN KpiMatch ELSE KpiMismatch]
    ELSE IF Str(result_source) = Str(result_clone) THEN
        [diff |-> NotAvailable, pct_diff |-> NotAvailable, status |-> KpiMatch]
    ELSE
        [diff |-> NotAvailable, pct_diff |-> NotAvailable, status |-> KpiMismatch]

\* a variant in which a failure of the source side is reported for both sides
SourceFailureHidesClone(kpi_def, result_source, result_clone) ==
    LET failed == result_source.t = "str" /\ Len(result_source.s) >= 12
                    /\ SubSeq(result_source.s, 1, 12) = "QUERY_ERROR:"
        shown == IF failed THEN result_source ELSE result_clone
        d == KpiDifference(result_source, shown) IN
    [KPI_ID |-> kpi_def.id, KPI_Name |-> kpi_def.name,
     Source_Value |-> result_source, Clone_Value |-> shown,
     Difference |-> IF d.diff.t = "float" THEN Round2(d.diff) ELSE d.diff,
     Diff_Pct |-> IF d.pct_diff.t = "float"
                     THEN PyString(FloatStr(Round2(d.pct_diff)) \o "%")
                  ELSE d.pct_diff,
     Status |-> d.status]

\* the row of one evaluated KPI
KpiRow(kpi_def, result_source, result_clone) ==
    LET d == KpiDifference(result_source, result_clone) IN
    [KPI_ID |-> kpi_def.id, KPI_Name |-> kpi_def.name,
     Source_Value |-> result_source, Clone_Value |-> result_clone,
     Difference |-> IF d.diff.t = "float" THEN Round2(d.diff) ELSE d.diff,
     Diff_Pct |-> IF d.pct_diff.t = "float"
                     THEN PyString(FloatStr(Round2(d.pct_diff)) \o "%")
                  ELSE d.pct_diff,
     Status |-> d.status]

\* for kpi_id, kpi_name, kpi_sql in kpis: the two executions and the row
RECURSIVE KpiLoop(_, _, _, _, _, _, _, _)
KpiLoop(path, database, source_schema, target_schema, kpis, answers, i, acc) ==
    IF i > Len(kpis) THEN acc
    ELSE
        LET source_query == QualifyFormula(path, kpis[i].sql, database, source_schema)
            clone_query == QualifyFormula(path, kpis[i].sql, database, target_schema)
        IN  KpiLoop(path, database, source_schema, target_schema, kpis, answers, i + 1,
                [acc EXCEPT
                    !.results = Append(@, KpiRow(kpis[i], QueryResult(answers[i].source),
                                                 QueryResult(answers[i].clone))),
                    !.executed = @ \o <<[stmt |-> "source_query", kpi |-> i,
                                         sql |-> source_query],
                                        [stmt |-> "clone_query", kpi |-> i,
                                         sql |-> clone_query]>>])

\* from the ORDER_DATA probes on: what both handlers do with the fetched kpis
EvaluateKpis(path, database, source_schema, target_schema, kpis, wh, answers, fetch) ==
    LET probes == <<[stmt |-> "probe_source", kpi |-> 0,
                     sql |-> OrderDataProbe(database, source_schema)],
                    [stmt |-> "probe_target", kpi |-> 0,
                     sql |-> OrderDataProbe(database, target_schema)]>>
    IN  IF ProbeShortCircuits(wh.source_has_table, wh.target_has_table) THEN
            [results |-> KpiErrorRows(kpis, MissingMessage(wh.source_has_table,
                                                           wh.target_has_table)),
             status |-> MissingOrderData, button |-> FALSE,
             executed |-> fetch \o probes]
        ELSE
            KpiLoop(path, database, source_schema, target_schema, kpis, answers, 1,
                    [results |-> <<>>, status |-> KpiValidationCompleted,
                     button |-> TRUE, executed |-> fetch \o probes])

validate_kpis(database, source_schema, target_schema, wh, answers) ==
    LET fetch == <<[stmt |-> "fetch", kpi |-> 0,
                    sql |-> OrderKpisQuery(database, source_schema)]>>
        kpis == wh.order_kpis
    IN  IF wh.fetch_raises THEN
            [results |-> <<>>, status |-> KpiValidationFailed(wh.fetch_message),
             executed |-> fetch]
        ELSE IF kpis = <<>> THEN
            [results |-> <<>>, status |-> NoKpisFound, executed |-> fetch]
        ELSE
            LET r == EvaluateKpis("validate_kpis", database, source_schema,
                                  target_schema, kpis, wh, answers, fetch)
            IN  [results |-> r.results, status |-> r.status, executed |-> r.executed]

validate_selected_kpis(database, source_schema, target_schema, kpi_selections, wh, answers) ==
    LET selected_kpis == SelectedKpis(kpi_selections, 1)
        fetch == <<[stmt |-> "fetch", kpi |-> 0,
                    sql |-> SelectedKpisQuery(database, source_schema, selected_kpis)]>>
        kpis == WhereNameIn(wh.order_kpis, selected_kpis)
    IN  IF selected_kpis = <<>> THEN
            [results |-> <<>>, status |-> NoKpisSelected, button |-> FALSE,
             executed |-> <<>>]
        ELSE IF wh.fetch_raises THEN
            [results |-> <<>>, status |-> KpiValidationFailed(wh.fetch_message),
             button |-> FALSE, executed |-> fetch]
        ELSE IF kpis = <<>> THEN
            [results |-> <<>>, status |-> NoMatchingKpis, button |-> FALSE,
             executed |-> fetch]
        ELSE EvaluateKpis("validate_selected_kpis", database, source_schema,
                          target_schema, kpis, wh, answers, fetch)

(***************************************************************************)
(* The KPI state machine: a warehouse with its ORDER_KPIS rows and the     *)
(* accessibility of ORDER_DATA in the two schemas, and one call of either  *)
(* KPI handler on it, the warehouse answering each formula on each side.   *)
(***************************************************************************)
SourceSchema == "S"
TargetSchema == "C"

\* rows of ORDER_KPIS: (KPI_ID, KPI_NAME, KPI_VALUE)
TotalOrders ==
    [id |-> 1, name |-> "Total Orders", sql |-> "SELECT COUNT(*) FROM ORDER_DATA"]
TotalRevenue ==
    [id |-> 2, name |-> "Total Revenue", sql |-> "SELECT SUM(AMOUNT) FROM order_data"]
RefundRate ==
    [id |-> 10, name |-> "Refund Rate", sql |-> "SELECT AVG(REFUND) FROM Order_Data"]
OrderKpisTables ==
    {<<>>, <<TotalOrders>>, <<RefundRate>>, <<TotalOrders, TotalRevenue>>,
     <<TotalRevenue, RefundRate>>}

\* what a formula can answer on one side: values of ordinary size ...
SyntaxError == "SQL compilation error: syntax error"
UnknownColumn == "SQL compilation error: invalid identifier"
OrdinaryAnswers ==
    {FirstRow(PyInt(0, 0)), FirstRow(PyInt(0, 80)), FirstRow(PyInt(0, 100)),
     FirstRow(PyFloat(0, 100, 1)), FirstRow(PyDecimal("100.00")), NoRow,
     Raises(SyntaxError), Raises(UnknownColumn)}
\* ... and integers from 2^53 on, which a NUMBER(38,0) holds
LargeAnswers == {FirstRow(PyInt(1, 0)), FirstRow(PyInt(1, 1))}
\* the two sides hold data of the same magnitude
KpiAnswerPairs ==
    {[source |-> s, clone |-> c] : s \in OrdinaryAnswers, c \in OrdinaryAnswers}
    \cup {[source |-> s, clone |-> c] : s \in LargeAnswers, c \in LargeAnswers}

\* a formula over ORDER_DATA raises on a side where ORDER_DATA is missing
MissingTable == "SQL compilation error: Object 'ORDER_DATA' does not exist"
AnswerPairsOn(wh) ==
    {[source |-> IF wh.source_has_table THEN p.source ELSE Raises(MissingTable),
      clone |-> IF wh.target_has_table THEN p.clone ELSE Raises(MissingTable)] :
        p \in KpiAnswerPairs}

\* the checkboxes ticked in the KPI panel, first to last
KpiSelections == {<<>>} \cup [1..2 -> BOOLEAN]

NoKpiCall == [op |-> "none"]

Warehouses ==
    {[op |-> "connected", order_kpis |-> rows, fetch_raises |-> FALSE,
      fetch_message |-> "", source_has_table |-> s, target_has_table |-> t] :
        rows \in OrderKpisTables, s \in BOOLEAN, t \in BOOLEAN}
    \cup
    {[op |-> "connected", order_kpis |-> <<TotalOrders>>, fetch_raises |-> TRUE,
      fetch_message |-> "Object 'ORDER_KPIS' does not exist",
      source_has_table |-> s, target_has_table |-> t] : s \in BOOLEAN, t \in BOOLEAN}

InitKpi ==
    /\ kpi \in Warehouses
    /\ catalog = [s \in Schemas |-> [t \in TableNames |-> [exists |-> FALSE, cols |-> NoColumns]]]
    /\ ret = NoCall
    /\ q = NoQualification
    /\ tc = NoTestCall
    /\ cl = [op |-> "none"]
    /\ client = [op |-> "none"]
    /\ warehouse = [op |-> "none"]
    /\ handler = [op |-> "none"]
    /\ session = [op |-> "none"]

\* the rows the call's fetchall() returns
Fetched(wh, rows) == IF wh.fetch_raises THEN <<>> ELSE rows

CallValidateKpis ==
    /\ kpi.op = "connected"
    /\ \E answers \in [1..Len(Fetched(kpi, kpi.order_kpis)) -> AnswerPairsOn(kpi)] :
            LET r == validate_kpis(Database, SourceSchema, TargetSchema, kpi, answers)
            IN  /\ kpi' = [op |-> "validate_kpis", order_kpis |-> kpi.order_kpis,
                           fetch_raises |-> kpi.fetch_raises,
                           source_has_table |-> kpi.source_has_table,
                           target_has_table |-> kpi.target_has_table,
                           kpis |-> Fetched(kpi, kpi.order_kpis), answers |-> answers,
                           results |-> r.results, status |-> r.status,
                           executed |-> r.executed]
                /\ UNCHANGED <<catalog, ret, q, tc, cl, client, warehouse, handler, session>>

CallValidateSelectedKpis ==
    /\ kpi.op = "connected"
    /\ \E kpi_selections \in KpiSelections :
        LET kpis == Fetched(kpi, WhereNameIn(kpi.order_kpis,
                                             SelectedKpis(kpi_selections, 1)))
        IN  \E answers \in [1..Len(kpis) -> AnswerPairsOn(kpi)] :
                LET r == validate_selected_kpis(Database, SourceSchema, TargetSchema,
                                                kpi_selections, kpi, answers)
                IN  /\ kpi' = [op |-> "validate_selected_kpis",
                               order_kpis |-> kpi.order_kpis,
                               fetch_raises |-> kpi.fetch_raises,
                               source_has_table |-> kpi.source_has_table,
                               target_has_table |-> kpi.target_has_table,
                               kpi_selections |-> kpi_selections,
                               kpis |-> kpis, answers |-> answers,
                               results |-> r.results, status |-> r.status,
                               button |-> r.button, executed |-> r.executed]
                    /\ UNCHANGED <<catalog, ret, q, tc, cl, client, warehouse, handler, session>>

NextKpi ==
    \/ CallValidateKpis
    \/ CallValidateSelectedKpis

SpecKpi == InitKpi /\ [][NextKpi]_vars

(***************************************************************************)
(* clone_schema                                                            *)
(***************************************************************************)
CloneSuccess == "Success"
ClonePartialSuccess == "Partial Success"
SourceMissing(source_db, source_schema) ==
    "Source schema " \o source_db \o "." \o source_schema \o " doesn't exist"
TargetNotCreated == "Clone failed - target schema not created"
CloneFailed(message) == "Clone failed: " \o message
CloneSucceeded(source_db, source_schema, target_schema) ==
    "Successfully Mirrored Schema " \o source_db \o "." \o source_schema
    \o " to " \o source_db \o "." \o target_schema

\* SHOW ... LIKE '<pattern>': the name matches the SQL pattern, ignoring case;
\* _ stands for any one character and % for any run of characters
RECURSIVE LikeMatches(_, _)
LikeMatches(pattern, name) ==
    IF pattern = "" THEN name = ""
    ELSE IF Head(pattern) = "%" THEN
        \/ LikeMatches(Tail(pattern), name)
        \/ name # "" /\ LikeMatches(pattern, Tail(name))
    ELSE
        /\ name # ""
        /\ Head(pattern) = "_" \/ Fold(Head(pattern)) = Fold(Head(name))
        /\ LikeMatches(Tail(pattern), Tail(name))

\* the rows of SHOW SCHEMAS LIKE '<pattern>' IN DATABASE db
ShowSchemasLike(schemas, pattern) ==
    {name \in DOMAIN schemas : schemas[name].exists /\ LikeMatches(pattern, name)}

\* the statements of clone_schema
ShowSchemasStmt(source_db, pattern) ==
    "SHOW SCHEMAS LIKE '" \o pattern \o "' IN DATABASE " \o source_db
CloneStmt(source_db, source_schema, target_schema) ==
    "CREATE OR REPLACE SCHEMA " \o source_db \o "." \o target_schema
    \o " CLONE " \o source_db \o "." \o source_schema
ShowTablesStmt(source_db, schema) ==
    "SHOW TABLES IN SCHEMA " \o source_db \o "." \o schema

\* a variant that moves the tables to the target instead of copying them
MovedNotCloned(schemas, source_schema, target_schema) ==
    [schemas EXCEPT ![source_schema] = [exists |-> FALSE, tables |-> {}],
                    ![target_schema] =
                        [exists |-> TRUE, tables |-> schemas[source_schema].tables]]

\* what CREATE OR REPLACE SCHEMA target CLONE source leaves in the database
Cloned(schemas, source_schema, target_schema) ==
    [schemas EXCEPT ![target_schema] =
        [exists |-> TRUE, tables |-> schemas[source_schema].tables]]

\* the message of the warehouse for a schema that is not there
DoesNotExist(schema) == "Schema '" \o schema \o "' does not exist or not authorized."

\* 'Success' if len(source_tables) == len(clone_tables) else 'Partial Success'
AlwaysSuccess(source_count, clone_count) == CloneSuccess

CloneStatus(source_count, clone_count) ==
    IF source_count = clone_count THEN CloneSuccess ELSE ClonePartialSuccess

\* the summary DataFrame
CloneSummary(source_db, source_schema, target_schema, source_tables, clone_tables) ==
    <<[Database |-> source_db, Source_Schema |-> source_schema,
       Clone_Schema |-> target_schema,
       Source_Tables |-> Cardinality(source_tables),
       Cloned_Tables |-> Cardinality(clone_tables),
       Status |-> CloneStatus(Cardinality(source_tables), Cardinality(clone_tables))]>>

\* whether an exception raised by conn.cursor() is caught: the cursor is
\* obtained before the try block is entered
CursorCaught == FALSE

\* clone_schema on the schemas of source_db; env says which step the
\* connection fails at (if any), whether the verification already sees the new
\* schema, and which tables the enumeration of the target sees
clone_schema(schemas, source_db, source_schema, target_schema, env) ==
    LET failed(at, executed, now) ==
            [raised |-> FALSE, ok |-> FALSE, message |-> CloneFailed(at),
             summary |-> <<>>, executed |-> executed, schemas |-> now]
        check == <<[stmt |-> "check", sql |-> ShowSchemasStmt(source_db, source_schema)]>>
        clone == check \o <<[stmt |-> "clone",
                             sql |-> CloneStmt(source_db, source_schema, target_schema)]>>
        verify == clone \o <<[stmt |-> "verify",
                              sql |-> ShowSchemasStmt(source_db, target_schema)]>>
        enum_source == verify \o <<[stmt |-> "source_tables",
                                    sql |-> ShowTablesStmt(source_db, source_schema)]>>
        enum_target == enum_source \o <<[stmt |-> "clone_tables",
                                         sql |-> ShowTablesStmt(source_db, target_schema)]>>
        after == Cloned(schemas, source_schema, target_schema)
        source_tables == after[source_schema].tables
        clone_tables == after[target_schema].tables \cap env.visible
    IN  IF env.fail_at = "cursor" THEN
            IF CursorCaught THEN failed(env.message, <<>>, schemas)
            ELSE [raised |-> TRUE, message |-> env.message, executed |-> <<>>,
                  schemas |-> schemas]
        ELSE IF env.fail_at = "check" THEN failed(env.message, check, schemas)
        ELSE IF ShowSchemasLike(schemas, source_schema) = {} THEN
            [raised |-> FALSE, ok |-> FALSE,
             message |-> SourceMissing(source_db, source_schema),
             summary |-> <<>>, executed |-> check, schemas |-> schemas]
        ELSE IF env.fail_at = "clone" THEN failed(env.message, clone, schemas)
        ELSE IF ~schemas[source_schema].exists THEN
            failed(DoesNotExist(source_schema), clone, schemas)
        ELSE IF env.fail_at = "verify" THEN failed(env.message, verify, after)
        ELSE IF ~env.verify_sees \/ ShowSchemasLike(after, target_schema) = {} THEN
            [raised |-> FALSE, ok |-> FALSE, message |-> TargetNotCreated,
             summary |-> <<>>, executed |-> verify, schemas |-> after]
        ELSE IF env.fail_at = "source_tables" THEN failed(env.message, enum_source, after)
        ELSE IF env.fail_at = "clone_tables" THEN failed(env.message, enum_target, after)
        ELSE
            [raised |-> FALSE, ok |-> TRUE,
             message |-> CloneSucceeded(source_db, source_schema, target_schema),
             summary |-> CloneSummary(source_db, source_schema, target_schema,
                                      source_tables, clone_tables),
             executed |-> enum_target, schemas |-> after]

\* execute_clone, the handler of the clone button: only the message is shown
EnterTargetSchema == "Please enter a target schema name"
execute_clone(schemas, source_db, source_schema, target_schema, env) ==
    IF target_schema = "" THEN
        [raised |-> FALSE, message |-> EnterTargetSchema, executed |-> <<>>,
         schemas |-> schemas]
    ELSE
        LET r == clone_schema(schemas, source_db, source_schema, target_schema, env)
        IN  [raised |-> r.raised, message |-> r.message, executed |-> r.executed,
             schemas |-> r.schemas]

(***************************************************************************)
(* The clone state machine: a database with some schemas, and one call of  *)
(* clone_schema on it.                                                     *)
(***************************************************************************)
SchemaNames == {"DEV_1", "DEVX1", "QA"}
NoSchema == [exists |-> FALSE, tables |-> {}]
SchemaStates ==
    {NoSchema} \cup {[exists |-> TRUE, tables |-> ts] :
                        ts \in {{}, {"ORDERS"}, {"ORDERS", "CUSTOMERS"}}}
ConnectionLost == "Connection is closed"
FailurePoints ==
    {"none", "cursor", "check", "clone", "verify", "source_tables", "clone_tables"}
CloneEnvs ==
    {[fail_at |-> at, message |-> ConnectionLost, verify_sees |-> sees, visible |-> vis] :
        at \in FailurePoints, sees \in BOOLEAN, vis \in SUBSET TableNames}

NoClone == [op |-> "none"]

InitClone ==
    /\ cl \in {[op |-> "connected", schemas |-> schemas] :
                schemas \in [SchemaNames -> SchemaStates]}
    /\ catalog = [s \in Schemas |-> [t \in TableNames |-> [exists |-> FALSE, cols |-> NoColumns]]]
    /\ ret = NoCall
    /\ q = NoQualification
    /\ tc = NoTestCall
    /\ kpi = NoKpiCall
    /\ client = [op |-> "none"]
    /\ warehouse = [op |-> "none"]
    /\ handler = [op |-> "none"]
    /\ session = [op |-> "none"]

CallCloneSchema ==
    /\ cl.op = "connected"
    /\ \E source_schema \in SchemaNames, target_schema \in SchemaNames, env \in CloneEnvs :
            LET r == clone_schema(cl.schemas, Database, source_schema, target_schema, env)
            IN  /\ cl' = [op |-> "clone_schema", before |-> cl.schemas,
                          source_schema |-> source_schema,
                          target_schema |-> target_schema, env |-> env, result |-> r,
                          schemas |-> r.schemas]
                /\ UNCHANGED <<catalog, ret, q, tc, kpi, client, warehouse, handler, session>>

\* the text box of the target schema may be left empty
TargetNames == SchemaNames \cup {""}

CallExecuteClone ==
    /\ cl.op = "connected"
    /\ \E source_schema \in SchemaNames, target_schema \in TargetNames, env \in CloneEnvs :
            LET r == execute_clone(cl.schemas, Database, source_schema, target_schema, env)
            IN  /\ cl' = [op |-> "execute_clone", before |-> cl.schemas,
                          source_schema |-> source_schema,
                          target_schema |-> target_schema, env |-> env, result |-> r,
                          schemas |-> r.schemas]
                /\ UNCHANGED <<catalog, ret, q, tc, kpi, client, warehouse, handler, session>>

NextClone ==
    \/ CallCloneSchema
    \/ CallExecuteClone

SpecClone == InitClone /\ [][NextClone]_vars

(***************************************************************************)
(* The catalog client: get_databases, get_schemas, get_tables,             *)
(* verify_table_access, get_test_case_tables, get_test_cases               *)
(***************************************************************************)
\* the connection handle: None, a connection that was closed (conn.cursor()
\* raises), or a usable one
NoConnection == "None"
ClosedConnection == "closed"
OpenConnection == "open"
ConnectionHandles == {NoConnection, ClosedConnection, OpenConnection}

\* an exception left the function, or it returned a value
Propagated(message) == [raised |-> TRUE, message |-> message]
Returned(value) == [raised |-> FALSE, value |-> value]
CursorError(conn) ==
    IF conn = NoConnection THEN "'NoneType' object has no attribute 'cursor'"
    ELSE "Connection is closed"

\* whether the statement number n of a call raises: the handle gives no
\* cursor, or the warehouse fails at that statement
StatementRaises(conn, fail_at, n) == conn # OpenConnection \/ fail_at = n

\* [row[1] for row in cursor.fetchall()] of a SHOW command: the names
ShowNames(names) == names

get_databases(conn, names, fail_at) ==
    IF StatementRaises(conn, fail_at, 1) THEN Returned(<<>>)
    ELSE Returned(ShowNames(names))

get_schemas(conn, names, fail_at) ==
    IF StatementRaises(conn, fail_at, 1) THEN Returned(<<>>)
    ELSE Returned(ShowNames(names))

get_tables(conn, names, fail_at) ==
    IF conn = NoConnection THEN Returned(<<>>)
    ELSE IF StatementRaises(conn, fail_at, 1) THEN Returned(<<"All">>)
    ELSE Returned(<<"All">> \o ShowNames(names))

\* verify_table_access as a call on a connection handle: the cursor is obtained
\* before the try block
VerifyTableAccess(conn, fail_at) ==
    IF conn # OpenConnection THEN Propagated(CursorError(conn))
    ELSE Returned(verify_table_access(IF fail_at = 1 THEN Denied ELSE NoRow))

\* SELECT DISTINCT TABLE_NAME ... ORDER BY TABLE_NAME
DistinctTableNames(stored) ==
    Restrict(TableNameOrder, {stored[i].table_name : i \in DOMAIN stored})

get_test_case_tables(conn, test_cases_table, fail_at) ==
    IF StatementRaises(conn, fail_at, 1) THEN Returned(<<"All">>)
    ELSE IF ~test_cases_table.exists THEN Returned(<<"All">>)
    ELSE IF fail_at = 2 THEN Returned(<<"All">>)
    ELSE Returned(<<"All">> \o DistinctTableNames(test_cases_table.rows))

\* ... FROM TEST_CASES [WHERE TABLE_NAME = '{table}'] ORDER BY TEST_CASE_ID
RECURSIVE WhereTableName(_, _)
WhereTableName(stored, table) ==
    IF stored = <<>> THEN <<>>
    ELSE (IF table = "All" \/ Head(stored).table_name = table
            THEN <<Head(stored)>> ELSE <<>>)
         \o WhereTableName(Tail(stored), table)

get_test_cases(conn, test_cases_table, table, fail_at) ==
    IF StatementRaises(conn, fail_at, 1) THEN Returned(<<>>)
    ELSE IF ~test_cases_table.exists THEN Returned(<<>>)
    ELSE IF fail_at = 2 THEN Returned(<<>>)
    ELSE Returned(WhereTableName(test_cases_table.rows, table))

(***************************************************************************)
(* The catalog state machine: a connection handle and a warehouse, and one *)
(* call of a catalog client operation.                                     *)
(***************************************************************************)
NameLists == {<<>>, <<"D">>, <<"D", "E">>}
TestCasesTables ==
    {[exists |-> FALSE, rows |-> <<>>]}
    \cup {[exists |-> TRUE, rows |-> rows] :
            rows \in UNION {[1..n -> TestCases] : n \in 0..1}}
    \cup {[exists |-> TRUE, rows |-> <<a, b>>] :
            a \in {c \in TestCases : c.abbrev = "ORD_CNT"},
            b \in {c \in TestCases : c.abbrev # "ORD_CNT"}}
\* the statement of the call the warehouse fails at: none, the first, the second
StatementFailures == {0, 1, 2}
TableChoices == {"All"} \cup TableNames

NoCatalogCall == [op |-> "none"]

InitCatalog ==
    /\ client \in {[op |-> "session", conn |-> conn, names |-> names,
                test_cases_table |-> t] :
                conn \in ConnectionHandles, names \in NameLists, t \in TestCasesTables}
    /\ catalog = [s \in Schemas |-> [t \in TableNames |-> [exists |-> FALSE, cols |-> NoColumns]]]
    /\ ret = NoCall
    /\ q = NoQualification
    /\ tc = NoTestCall
    /\ kpi = NoKpiCall
    /\ cl = NoClone
    /\ warehouse = [op |-> "none"]
    /\ handler = [op |-> "none"]
    /\ session = [op |-> "none"]

\* the session after a call: what was called, with what, and what came back
AfterCatalogCall(op, table, fail_at, result) ==
    [op |-> op, conn |-> client.conn, names |-> client.names,
     test_cases_table |-> client.test_cases_table, table |-> table,
     fail_at |-> fail_at, result |-> result]

CallGetDatabases ==
    /\ client.op = "session"
    /\ \E fail_at \in StatementFailures :
        /\ client' = AfterCatalogCall("get_databases", "-", fail_at,
                                  get_databases(client.conn, client.names, fail_at))
        /\ UNCHANGED <<catalog, ret, q, tc, kpi, cl, warehouse, handler, session>>

CallGetSchemas ==
    /\ client.op = "session"
    /\ \E fail_at \in StatementFailures :
        /\ client' = AfterCatalogCall("get_schemas", "-", fail_at,
                                  get_schemas(client.conn, client.names, fail_at))
        /\ UNCHANGED <<catalog, ret, q, tc, kpi, cl, warehouse, handler, session>>

CallGetTables ==
    /\ client.op = "session"
    /\ \E fail_at \in StatementFailures :
        /\ client' = AfterCatalogCall("get_tables", "-", fail_at,
                                  get_tables(client.conn, client.names, fail_at))
        /\ UNCHANGED <<catalog, ret, q, tc, kpi, cl, warehouse, handler, session>>

CallVerifyTableAccess ==
    /\ client.op = "session"
    /\ \E fail_at \in StatementFailures, table \in TableNames :
        /\ client' = AfterCatalogCall("verify_table_access", table, fail_at,
                                  VerifyTableAccess(client.conn, fail_at))
        /\ UNCHANGED <<catalog, ret, q, tc, kpi, cl, warehouse, handler, session>>

CallGetTestCaseTables ==
    /\ client.op = "session"
    /\ \E fail_at \in StatementFailures :
        /\ client' = AfterCatalogCall("get_test_case_tables", "-", fail_at,
                    get_test_case_tables(client.conn, client.test_cases_table, fail_at))
        /\ UNCHANGED <<catalog, ret, q, tc, kpi, cl, warehouse, handler, session>>

CallGetTestCases ==
    /\ client.op = "session"
    /\ \E fail_at \in StatementFailures, table \in TableChoices :
        /\ client' = AfterCatalogCall("get_test_cases", table, fail_at,
                    get_test_cases(client.conn, client.test_cases_table, table, fail_at))
        /\ UNCHANGED <<catalog, ret, q, tc, kpi, cl, warehouse, handler, session>>

NextCatalog ==
    \/ CallGetDatabases
    \/ CallGetSchemas
    \/ CallGetTables
    \/ CallVerifyTableAccess
    \/ CallGetTestCaseTables
    \/ CallGetTestCases

SpecCatalog == InitCatalog /\ [][NextCatalog]_vars

(***************************************************************************)
(* The statements the engine sends, and what they do to the warehouse.     *)
(***************************************************************************)
\* the query of compare_table_differences, the common-tables query and the
\* DESCRIBE of compare_column_differences
TableDiffQuery(db_name, source_schema, target_schema) ==
    "WITH source_tables AS (SELECT table_name FROM " \o db_name
    \o ".information_schema.tables WHERE table_schema = '" \o source_schema
    \o "'), clone_tables AS (SELECT table_name FROM " \o db_name
    \o ".information_schema.tables WHERE table_schema = '" \o target_schema
    \o "') SELECT ... FROM source_tables s FULL OUTER JOIN clone_tables c ..."
CommonTablesQuery(db_name, source_schema, target_schema) ==
    "SELECT s.table_name FROM " \o db_name \o ".information_schema.tables s JOIN "
    \o db_name \o ".information_schema.tables c ON s.table_name = c.table_name"
    \o " WHERE s.table_schema = '" \o source_schema
    \o "' AND c.table_schema = '" \o target_schema \o "'"
DescribeStmt(db_name, schema, table) ==
    "DESCRIBE TABLE " \o db_name \o "." \o schema \o "." \o table

RECURSIVE DescribeStmts(_, _)
DescribeStmts(db_name, described) ==
    IF described = <<>> THEN <<>>
    ELSE <<DescribeStmt(db_name, Head(described)[1], Head(described)[2])>>
         \o DescribeStmts(db_name, Tail(described))

\* what cursor.execute(sql) does to the rows of the tables: a DELETE empties
\* its table; SELECT, WITH, DESCRIBE and SHOW change nothing
DeleteFrom == "DELETE FROM "
IsDelete(sql) == Len(sql) > Len(DeleteFrom) /\ SubSeq(sql, 1, Len(DeleteFrom)) = DeleteFrom
Execute(rows, sql) ==
    IF IsDelete(sql) /\ SubSeq(sql, Len(DeleteFrom) + 1, Len(sql)) \in DOMAIN rows
        THEN [rows EXCEPT ![SubSeq(sql, Len(DeleteFrom) + 1, Len(sql))] = 0]
    ELSE rows

\* the statements of a list executed in order, those that raised left out
RECURSIVE ExecuteAll(_, _)
ExecuteAll(rows, sent) ==
    IF sent = <<>> THEN rows
    ELSE ExecuteAll(IF Head(sent).raised THEN rows ELSE Execute(rows, Head(sent).sql),
                    Tail(sent))

\* the statements of a KPI call with their outcome
KpiSent(executed, answers) ==
    [i \in DOMAIN executed |->
        [sql |-> executed[i].sql,
         raised |-> CASE executed[i].stmt = "source_query" ->
                            answers[executed[i].kpi].source.kind = "error"
                      [] executed[i].stmt = "clone_query" ->
                            answers[executed[i].kpi].clone.kind = "error"
                      [] OTHER -> FALSE]]

\* the statements of a test-case call with their outcome
TestSent(executed, answers) ==
    [i \in DOMAIN executed |->
        [sql |-> executed[i].sql,
         raised |-> IF executed[i].stmt = "assertion"
                        THEN answers[executed[i].case].kind = "error"
                    ELSE answers[executed[i].case].kind = "denied"]]

RECURSIVE AllSucceed(_)
AllSucceed(sqls) ==
    IF sqls = <<>> THEN <<>>
    ELSE <<[sql |-> Head(sqls), raised |-> FALSE]>> \o AllSucceed(Tail(sqls))

(***************************************************************************)
(* The warehouse state machine: tables with rows, SQL texts stored in      *)
(* ORDER_KPIS and TEST_CASES, and any sequence of calls of the comparison  *)
(* and validation operations, each statement acting on the warehouse.      *)
(***************************************************************************)
WarehouseTables == {"D.S.ORDER_DATA", "D.C.ORDER_DATA", "D.S.ORDERS"}
RowCounts == {0, 2}
\* KPI_VALUE and SQL_CODE are free text
StoredDeleteKpi ==
    [id |-> 2, name |-> "Total Revenue", sql |-> "DELETE FROM ORDER_DATA"]
StoredDeleteTest ==
    [abbrev |-> "ORD_DEL", table_name |-> "ORDERS", sql |-> "DELETE FROM ORDERS",
     expected |-> PyString("0")]
StoredCountTest ==
    [abbrev |-> "ORD_CNT", table_name |-> "ORDERS",
     sql |-> "SELECT COUNT(*) FROM orders", expected |-> PyString(" 42 ")]
StoredKpis == {<<TotalOrders>>, <<TotalOrders, StoredDeleteKpi>>}
StoredTests == {<<StoredCountTest>>, <<StoredCountTest, StoredDeleteTest>>}
InsufficientPrivileges == "SQL access control error: Insufficient privileges"
StatementAnswers == {FirstRow(PyInt(0, 2)), Raises(InsufficientPrivileges)}
\* both schemas hold both tables
BothSchemasFull ==
    [s \in Schemas |-> [t \in TableNames |->
        [exists |-> TRUE, cols |-> [c \in ColNames |-> IF c = "ID" THEN "NUMBER(38,0)" ELSE "VARCHAR(16)"]]]]

NoWarehouse == [op |-> "none"]

InitWarehouse ==
    /\ warehouse \in {[op |-> "start", rows |-> rows, before |-> rows,
                       order_kpis |-> kpis, test_cases |-> tests, sent |-> <<>>] :
                        rows \in [WarehouseTables -> RowCounts],
                        kpis \in StoredKpis, tests \in StoredTests}
    /\ catalog = BothSchemasFull
    /\ ret = NoCall
    /\ q = NoQualification
    /\ tc = NoTestCall
    /\ kpi = NoKpiCall
    /\ cl = NoClone
    /\ client = NoCatalogCall
    /\ handler = [op |-> "none"]
    /\ session = [op |-> "none"]

\* the warehouse after a call that sent the statements `sent`
AfterStatements(op, sent) ==
    [warehouse EXCEPT !.op = op, !.sent = sent,
                      !.rows = ExecuteAll(warehouse.rows, sent)]

KpiWarehouse ==
    [order_kpis |-> warehouse.order_kpis, fetch_raises |-> FALSE, fetch_message |-> "",
     source_has_table |-> TRUE, target_has_table |-> TRUE]

CompareTablesOnWarehouse ==
    /\ warehouse.op # "none"
    /\ warehouse' = AfterStatements("compare_table_differences",
                        AllSucceed(<<TableDiffQuery(Database, "SRC", "CLN")>>))
    /\ UNCHANGED <<catalog, ret, q, tc, kpi, cl, client, handler, session>>

CompareColumnsOnWarehouse ==
    /\ warehouse.op # "none"
    /\ LET r == compare_column_differences(catalog, "SRC", "CLN", TableNameOrder,
                                           <<"ID", "AMOUNT">>, NoFailure)
       IN  warehouse' = AfterStatements("compare_column_differences",
                AllSucceed(<<CommonTablesQuery(Database, "SRC", "CLN")>>
                           \o DescribeStmts(Database, r.described)))
    /\ UNCHANGED <<catalog, ret, q, tc, kpi, cl, client, handler, session>>

ValidateKpisOnWarehouse ==
    /\ warehouse.op # "none"
    /\ \E answers \in [1..Len(warehouse.order_kpis) ->
                        [source : StatementAnswers, clone : StatementAnswers]] :
        LET r == validate_kpis(Database, SourceSchema, TargetSchema, KpiWarehouse, answers)
        IN  warehouse' = AfterStatements("validate_kpis", KpiSent(r.executed, answers))
    /\ UNCHANGED <<catalog, ret, q, tc, kpi, cl, client, handler, session>>

ValidateSelectedKpisOnWarehouse ==
    /\ warehouse.op # "none"
    /\ \E kpi_selections \in KpiSelections :
        LET kpis == WhereNameIn(warehouse.order_kpis, SelectedKpis(kpi_selections, 1))
        IN  \E answers \in [1..Len(kpis) ->
                             [source : StatementAnswers, clone : StatementAnswers]] :
                LET r == validate_selected_kpis(Database, SourceSchema, TargetSchema,
                                                kpi_selections, KpiWarehouse, answers)
                IN  warehouse' = AfterStatements("validate_selected_kpis",
                                                 KpiSent(r.executed, answers))
    /\ UNCHANGED <<catalog, ret, q, tc, kpi, cl, client, handler, session>>

ValidateTestCasesOnWarehouse ==
    /\ warehouse.op # "none"
    /\ \E answers \in [1..Len(warehouse.test_cases) -> StatementAnswers \cup {Denied}] :
        LET r == validate_test_cases(Database, TestSchema, warehouse.test_cases, answers)
        IN  warehouse' = AfterStatements("validate_test_cases",
                                         TestSent(r.executed, answers))
    /\ UNCHANGED <<catalog, ret, q, tc, kpi, cl, client, handler, session>>

NextWarehouse ==
    \/ CompareTablesOnWarehouse
    \/ CompareColumnsOnWarehouse
    \/ ValidateKpisOnWarehouse
    \/ ValidateSelectedKpisOnWarehouse
    \/ ValidateTestCasesOnWarehouse

SpecWarehouse == InitWarehouse /\ [][NextWarehouse]_vars

(***************************************************************************)
(* The top-level validation handlers called with a connection handle that  *)
(* may be None or closed, and how each call ends.                          *)
(***************************************************************************)
PleaseSelectDatabase == "Please select database and schema"
PleaseSelectTestCase == "Please select at least one test case"
NoValidTestCases == "No valid test cases selected"

\* how a handler call ended: an exception left it, or it returned a status
\* with its tables; computed is what the call had computed by then
Escaped(message) ==
    [raised |-> TRUE, message |-> message, status |-> "", tables |-> <<>>,
     computed |-> <<>>]
Answered(status, tables, computed) ==
    [raised |-> FALSE, message |-> "", status |-> status, tables |-> tables,
     computed |-> computed]

\* run_validation: everything, the cursor included, is inside its try
RunValidationOn(conn, cat, source_schema, target_schema, table_order, col_order, failing) ==
    IF conn # OpenConnection THEN
        Answered(ValidationFailed, << <<>>, <<>>, <<>> >>, <<>>)
    ELSE
        LET r == run_validation(cat, source_schema, target_schema, table_order,
                                col_order, failing)
        IN  Answered(r.status, <<r.table_diff, r.column_diff, r.datatype_diff>>,
                     <<compare_table_differences(cat, source_schema, target_schema)>>)

\* validate_kpis and validate_selected_kpis: conn.cursor() comes before try
ValidateKpisOn(conn, database, source_schema, target_schema, wh, answers) ==
    IF conn # OpenConnection THEN Escaped(CursorError(conn))
    ELSE LET r == validate_kpis(database, source_schema, target_schema, wh, answers)
         IN  Answered(r.status, <<r.results>>, <<>>)

ValidateSelectedKpisOn(conn, database, source_schema, target_schema, kpi_selections, wh, answers) ==
    IF conn # OpenConnection THEN Escaped(CursorError(conn))
    ELSE LET r == validate_selected_kpis(database, source_schema, target_schema,
                                         kpi_selections, wh, answers)
         IN  Answered(r.status, <<r.results>>, <<>>)

\* validate_test_cases: the empty list is answered first, then conn.cursor()
\* is called outside any try
ValidateTestCasesOn(conn, database, schema, test_cases, answers) ==
    IF test_cases = <<>> THEN Answered(NoTestCasesSelected, << <<>> >>, <<>>)
    ELSE IF conn # OpenConnection THEN Escaped(CursorError(conn))
    ELSE LET r == validate_test_cases(database, schema, test_cases, answers)
         IN  Answered(r.status, <<r.results>>, <<>>)

\* the first stored case with the name, for each selected name that has one
RECURSIVE SelectedTestCases(_, _)
SelectedTestCases(selected_case_names, test_case_data) ==
    IF selected_case_names = <<>> THEN <<>>
    ELSE LET name == Head(selected_case_names)
             hits == {i \in DOMAIN test_case_data : test_case_data[i].abbrev = name}
             rest == SelectedTestCases(Tail(selected_case_names), test_case_data)
         IN  IF hits = {} THEN rest
             ELSE <<test_case_data[CHOOSE i \in hits : \A j \in hits : i <= j]>> \o rest

execute_test_case_validation(conn, db, schema, selected_case_names, test_case_data, answers) ==
    IF conn = NoConnection \/ db = "" \/ schema = "" THEN
        Answered(PleaseSelectDatabase, << <<>> >>, <<>>)
    ELSE IF selected_case_names = <<>> THEN
        Answered(PleaseSelectTestCase, << <<>> >>, <<>>)
    ELSE IF SelectedTestCases(selected_case_names, test_case_data) = <<>> THEN
        Answered(NoValidTestCases, << <<>> >>, <<>>)
    ELSE ValidateTestCasesOn(conn, db, schema,
                             SelectedTestCases(selected_case_names, test_case_data),
                             answers)

(***************************************************************************)
(* The handler state machine: one call of a handler by an idle session.    *)
(***************************************************************************)
NoHandlerCall == [op |-> "none"]
\* the stored cases shown in the panel and the names that can be ticked
\* (the third shares its abbreviation with the first)
TestCaseData ==
    <<StoredCountTest,
      [abbrev |-> "CUST_MAX", table_name |-> "CUSTOMERS",
       sql |-> "SELECT MAX(NAME) FROM CUSTOMERS", expected |-> PyString("abc")],
      [abbrev |-> "ORD_CNT", table_name |-> "ORDERS",
       sql |-> "SELECT COUNT(*) FROM ORDERS WHERE ID > 0", expected |-> PyString("7")]>>
SelectedCaseNames ==
    {<<>>, <<"ORD_CNT">>, <<"CUST_MAX", "ORD_CNT">>, <<"GONE">>,
     <<"ORD_CNT", "GONE">>, <<"ORD_CNT", "ORD_CNT">>}
HandlerTestAnswers == {Denied, Raises(SyntaxError), FirstRow(PyInt(0, 42))}
HandlerKpiAnswers(wh) ==
    {[source |-> IF wh.source_has_table THEN p[1] ELSE Raises(MissingTable),
      clone |-> IF wh.target_has_table THEN p[2] ELSE Raises(MissingTable)] :
        p \in {<<FirstRow(PyInt(0, 100)), FirstRow(PyInt(0, 80))>>,
               <<Raises(SyntaxError), FirstRow(PyInt(0, 100))>>}}

\* ORDERS is in both schemas, CUSTOMERS in any state on either side
HandlerCatalogs ==
    {c \in Catalogs : \A s \in Schemas : c[s]["ORDERS"] = BothSchemasFull[s]["ORDERS"]}

InitHandlers ==
    /\ handler = NoHandlerCall
    /\ session = [op |-> "none"]
    /\ catalog \in HandlerCatalogs
    /\ ret = NoCall
    /\ q = NoQualification
    /\ tc = NoTestCall
    /\ kpi = NoKpiCall
    /\ cl = NoClone
    /\ client = NoCatalogCall
    /\ warehouse = NoWarehouse

AfterHandler(op, conn, outcome) ==
    [op |-> op, conn |-> conn, raised |-> outcome.raised, message |-> outcome.message,
     status |-> outcome.status, tables |-> outcome.tables, computed |-> outcome.computed]

HandleRunValidation ==
    /\ handler.op = "none"
    /\ \E conn \in ConnectionHandles, failing \in DescribeFailures :
        handler' = AfterHandler("run_validation", conn,
                        RunValidationOn(conn, catalog, "SRC", "CLN", TableNameOrder,
                                        <<"ID", "AMOUNT">>, failing))
    /\ UNCHANGED <<catalog, ret, q, tc, kpi, cl, client, warehouse, session>>

HandleValidateKpis ==
    /\ handler.op = "none"
    /\ \E conn \in ConnectionHandles, w \in Warehouses :
        \E answers \in [1..Len(Fetched(w, w.order_kpis)) -> HandlerKpiAnswers(w)] :
            handler' = AfterHandler("validate_kpis", conn,
                            ValidateKpisOn(conn, Database, SourceSchema, TargetSchema,
                                           w, answers))
    /\ UNCHANGED <<catalog, ret, q, tc, kpi, cl, client, warehouse, session>>

HandleValidateSelectedKpis ==
    /\ handler.op = "none"
    /\ \E conn \in ConnectionHandles, w \in Warehouses, kpi_selections \in KpiSelections :
        LET kpis == Fetched(w, WhereNameIn(w.order_kpis, SelectedKpis(kpi_selections, 1)))
        IN  \E answers \in [1..Len(kpis) -> HandlerKpiAnswers(w)] :
                handler' = AfterHandler("validate_selected_kpis", conn,
                                ValidateSelectedKpisOn(conn, Database, SourceSchema,
                                                       TargetSchema, kpi_selections,
                                                       w, answers))
    /\ UNCHANGED <<catalog, ret, q, tc, kpi, cl, client, warehouse, session>>

HandleExecuteTestCaseValidation ==
    /\ handler.op = "none"
    /\ \E conn \in ConnectionHandles, selected_case_names \in SelectedCaseNames :
        \E answers \in [1..Len(SelectedTestCases(selected_case_names, TestCaseData))
                            -> HandlerTestAnswers] :
            handler' = AfterHandler("execute_test_case_validation", conn,
                            execute_test_case_validation(conn, Database, TestSchema,
                                                         selected_case_names,
                                                         TestCaseData, answers))
                       @@ [selected_case_names |-> selected_case_names,
                           test_case_data |-> TestCaseData,
                           selected_test_cases |->
                               IF conn = NoConnection THEN <<>>
                               ELSE SelectedTestCases(selected_case_names, TestCaseData)]
    /\ UNCHANGED <<catalog, ret, q, tc, kpi, cl, client, warehouse, session>>

NextHandlers ==
    \/ HandleRunValidation
    \/ HandleValidateKpis
    \/ HandleValidateSelectedKpis
    \/ HandleExecuteTestCaseValidation

SpecHandlers == InitHandlers /\ [][NextHandlers]_vars

(***************************************************************************)
(* The two KPI handlers on one warehouse: validate_kpis, and                *)
(* validate_selected_kpis with all nine names ticked, called on the same   *)
(* ORDER_KPIS rows, the warehouse answering a statement by its text.       *)
(***************************************************************************)
\* rows of ORDER_KPIS whose names are among the nine of the panel
MaxOrderValue ==
    [id |-> 4, name |-> "Max Order Value", sql |-> "SELECT MAX(AMOUNT) FROM Order_Data"]
UniqueCustomers ==
    [id |-> 9, name |-> "Unique Customers",
     sql |-> "SELECT COUNT(*) FROM CUSTOMERS JOIN ORDER_DATA USING (CID)"]
PanelKpis == {TotalOrders, TotalRevenue, MaxOrderValue, UniqueCustomers}
MaxStoredKpis == 2
AllNineSelected == [i \in 1..Len(KpiNames) |-> TRUE]

\* what the warehouse holds for a formula: its value over the source schema's
\* ORDER_DATA, over the clone's, and what the unqualified name ORDER_DATA
\* gives in the session's current schema
FormulaAnswers ==
    [source : {FirstRow(PyInt(0, 100)), Raises(SyntaxError)},
     clone : {FirstRow(PyInt(0, 100)), FirstRow(PyInt(0, 80))},
     session : {Raises(MissingTable), FirstRow(PyInt(0, 7))}]

\* the answers to the statements a handler sends: a statement in which the
\* handler qualified the table is answered from that schema, one it left as
\* stored from the session's current schema
AnswersTo(path, kpis, database, source_schema, target_schema, held) ==
    [i \in DOMAIN kpis |->
        [source |-> IF QualifyFormula(path, kpis[i].sql, database, source_schema) # kpis[i].sql
                        THEN held[i].source ELSE held[i].session,
         clone |-> IF QualifyFormula(path, kpis[i].sql, database, target_schema) # kpis[i].sql
                        THEN held[i].clone ELSE held[i].session]]

\* the formula statements of a call
RECURSIVE FormulaQueries(_)
FormulaQueries(executed) ==
    IF executed = <<>> THEN <<>>
    ELSE (IF Head(executed).stmt \in {"source_query", "clone_query"}
            THEN <<Head(executed).sql>> ELSE <<>>)
         \o FormulaQueries(Tail(executed))

InitKpiCore ==
    /\ kpi \in {[op |-> "stored", order_kpis |-> rows, fetch_raises |-> FALSE,
                 fetch_message |-> "", source_has_table |-> TRUE,
                 target_has_table |-> t] :
                    rows \in UNION {[1..n -> PanelKpis] : n \in 1..MaxStoredKpis},
                    t \in BOOLEAN}
    /\ catalog = [s \in Schemas |-> [t \in TableNames |-> [exists |-> FALSE, cols |-> NoColumns]]]
    /\ ret = NoCall
    /\ q = NoQualification
    /\ tc = NoTestCall
    /\ cl = NoClone
    /\ client = NoCatalogCall
    /\ warehouse = NoWarehouse
    /\ handler = NoHandlerCall
    /\ session = [op |-> "none"]

CallBothKpiHandlers ==
    /\ kpi.op = "stored"
    /\ \E held \in [1..Len(kpi.order_kpis) -> FormulaAnswers] :
        LET all == validate_kpis(Database, SourceSchema, TargetSchema, kpi,
                        AnswersTo("validate_kpis", kpi.order_kpis, Database,
                                  SourceSchema, TargetSchema, held))
            selected == validate_selected_kpis(Database, SourceSchema, TargetSchema,
                            AllNineSelected, kpi,
                            AnswersTo("validate_selected_kpis", kpi.order_kpis, Database,
                                      SourceSchema, TargetSchema, held))
        IN  kpi' = [op |-> "both", order_kpis |-> kpi.order_kpis, held |-> held,
                    target_has_table |-> kpi.target_has_table,
                    fetched_by_all |-> kpi.order_kpis,
                    fetched_by_selected |-> WhereNameIn(kpi.order_kpis,
                                                SelectedKpis(AllNineSelected, 1)),
                    all |-> all, selected |-> selected]
    /\ UNCHANGED <<catalog, ret, q, tc, cl, client, warehouse, handler, session>>

NextKpiCore == CallBothKpiHandlers

SpecKpiCore == InitKpiCore /\ [][NextKpiCore]_vars

(***************************************************************************)
(* Clone, then compare: clone_schema from SRC to CLN on a warehouse whose   *)
(* tables have columns, any number of times, and then the two differs on   *)
(* the same pair of schemas.                                               *)
(***************************************************************************)
MaxClones == 2
\* the schemas of the catalog as clone_schema sees them
SchemasOf(cat) ==
    [s \in Schemas |-> [exists |-> TRUE, tables |-> InformationSchemaTables(cat, s)]]
\* the warehouse after CREATE OR REPLACE SCHEMA target CLONE source: the
\* target holds the source's tables, with their columns, as far as the clone
\* carries them over (env.visible: the tables SHOW TABLES lists in the clone)
ClonedCatalog(cat, source_schema, target_schema, env) ==
    [cat EXCEPT ![target_schema] =
        [t \in TableNames |->
            IF t \in env.visible THEN cat[source_schema][t]
            ELSE [exists |-> FALSE, cols |-> NoColumns]]]
\* the clone command of the call went through
CloneExecuted(r) ==
    \E n \in DOMAIN r.executed : r.executed[n].stmt = "verify"
MirrorEnvs ==
    {[fail_at |-> at, message |-> ConnectionLost, verify_sees |-> TRUE, visible |-> vis] :
        at \in {"none", "clone", "clone_tables"}, vis \in SUBSET TableNames}

InitMirror ==
    /\ catalog \in HandlerCatalogs
    /\ cl = [op |-> "connected", clones |-> 0]
    /\ ret = NoCall
    /\ q = NoQualification
    /\ tc = NoTestCall
    /\ kpi = NoKpiCall
    /\ client = NoCatalogCall
    /\ warehouse = NoWarehouse
    /\ handler = NoHandlerCall
    /\ session = [op |-> "none"]

CloneOnWarehouse ==
    /\ ret = NoCall
    /\ cl.clones < MaxClones
    /\ \E env \in MirrorEnvs :
        LET r == clone_schema(SchemasOf(catalog), Database, "SRC", "CLN", env)
        IN  /\ cl' = [op |-> "clone_schema", clones |-> cl.clones + 1, env |-> env,
                      ok |-> r.ok, summary |-> r.summary]
            /\ catalog' = IF CloneExecuted(r)
                            THEN ClonedCatalog(catalog, "SRC", "CLN", env)
                          ELSE catalog
    /\ UNCHANGED <<ret, q, tc, kpi, client, warehouse, handler, session>>

CompareAfterClone ==
    /\ ret = NoCall
    /\ cl.op = "clone_schema"
    /\ cl.ok
    /\ \E table_order \in Perms(TableNames) :
        LET cd == compare_column_differences(catalog, "SRC", "CLN", table_order,
                                             <<"ID", "AMOUNT">>, NoFailure)
        IN  ret' = [NoCall EXCEPT !.op = "compare_after_clone",
                                  !.source_schema = "SRC", !.clone_schema = "CLN",
                                  !.table_diff = compare_table_differences(catalog, "SRC", "CLN"),
                                  !.column_diff = cd.column_diff,
                                  !.datatype_diff = cd.datatype_diff,
                                  !.described = cd.described]
    /\ UNCHANGED <<catalog, q, tc, kpi, cl, client, warehouse, handler, session>>

NextMirror ==
    \/ CloneOnWarehouse
    \/ CompareAfterClone

SpecMirror == InitMirror /\ [][NextMirror]_vars

(***************************************************************************)
(* The login page: the Connect and Disconnect buttons, the handle kept in  *)
(* conn_state and the components the two click handlers show and hide.     *)
(* connections is the warehouse's side: every connection opened so far, by *)
(* whom, and whether it has been closed.  A click needs its button on the  *)
(* page, so each handler is enabled while its button is visible.           *)
(***************************************************************************)
MaxLogins == 4

LoginUsers == {"alice", "bob", "carol"}
LoginPasswords == {"right", "wrong"}
LoginAccounts == {"acme", "nosuch"}

SuccessfullyConnected == "Successfully connected!"
DisconnectedSuccessfully == "Disconnected successfully"
ConnectionFailed(e) == "Connection failed: " \o e

\* a SnowflakeConnection object, and Python's None in its place
Connection(id) == [t |-> "SnowflakeConnection", id |-> id]

\* snowflake.connector.connect: the account is looked up, then the password
ConnectError(user, password, account) ==
    IF account # "acme" THEN "404 Not Found"
    ELSE IF password # "right" THEN "Incorrect username or password was specified"
    ELSE ""

get_snowflake_connection(user, password, account, connections) ==
    LET e == ConnectError(user, password, account) IN
    IF e = ""
    THEN [conn |-> Connection(Len(connections) + 1),
          msg |-> SuccessfullyConnected,
          connections |-> Append(connections, [user |-> user, closed |-> FALSE])]
    ELSE [conn |-> PyNone, msg |-> ConnectionFailed(e), connections |-> connections]

\* conn.close() of the connection the handle names
Close(conn, connections) ==
    [connections EXCEPT ![conn.id].closed = TRUE]

DropsHandleOnly(conn, connections) ==
    [conn |-> PyNone, msg |-> DisconnectedSuccessfully, connections |-> connections]

disconnect_snowflake(conn, connections) ==
    [conn |-> PyNone,
     msg |-> DisconnectedSuccessfully,
     connections |-> IF conn # PyNone THEN Close(conn, connections) ELSE connections]

\* the page as built: no handle, both tabs and Disconnect hidden, Connect shown
SessionStart ==
    [op |-> "start", before |-> PyNone, conn_state |-> PyNone, status |-> "",
     login_success |-> FALSE, mirror_tab |-> FALSE, driftwatch_tab |-> FALSE,
     disconnect_btn |-> FALSE, login_btn |-> TRUE, status_visible |-> FALSE,
     connections |-> <<>>]

InitSession ==
    /\ session = SessionStart
    /\ catalog = BothSchemasFull
    /\ ret = NoCall
    /\ q = NoQualification
    /\ tc = NoTestCall
    /\ kpi = NoKpiCall
    /\ cl = NoClone
    /\ client = NoCatalogCall
    /\ warehouse = NoWarehouse
    /\ handler = NoHandlerCall

handle_login ==
    /\ session.op # "none"
    /\ session.login_btn
    /\ Len(session.connections) < MaxLogins
    /\ \E user \in LoginUsers, password \in LoginPasswords, account \in LoginAccounts :
        LET r == get_snowflake_connection(user, password, account, session.connections)
            success == r.conn # PyNone
        IN  session' = [op |-> "handle_login", before |-> session.conn_state,
                        conn_state |-> r.conn, status |-> r.msg,
                        login_success |-> success, mirror_tab |-> success,
                        driftwatch_tab |-> success, disconnect_btn |-> success,
                        login_btn |-> ~success, status_visible |-> TRUE,
                        connections |-> r.connections]
    /\ UNCHANGED <<catalog, ret, q, tc, kpi, cl, client, warehouse, handler>>

handle_logout ==
    /\ session.op # "none"
    /\ session.disconnect_btn
    /\ LET r == disconnect_snowflake(session.conn_state, session.connections)
       IN  session' = [op |-> "handle_logout", before |-> session.conn_state,
                       conn_state |-> r.conn, status |-> r.msg,
                       login_success |-> FALSE, mirror_tab |-> FALSE,
                       driftwatch_tab |-> FALSE, disconnect_btn |-> FALSE,
                       login_btn |-> TRUE, status_visible |-> TRUE,
                       connections |-> r.connections]
    /\ UNCHANGED <<catalog, ret, q, tc, kpi, cl, client, warehouse, handler>>

NextSession ==
    \/ handle_login
    \/ handle_logout

SpecSession == InitSession /\ [][NextSession]_vars

(***************************************************************************)
(* Properties of the structural differ.                                    *)
(***************************************************************************)
SourceTables == InformationSchemaTables(catalog, ret.source_schema)
CloneTables == InformationSchemaTables(catalog, ret.clone_schema)
TableCall == ret.op = "compare_table_differences"
ColumnCall == ret.op = "compare_column_differences" /\ ~ret.raised
ValidationDone == ret.op = "run_validation" /\ ret.status = ValidationCompleted

\* the rows of a result that name table t (and column col)
TableDiffOf(t) == {i \in DOMAIN ret.table_diff : ret.table_diff[i].Table = t}
ColumnDiffOf(t, col) ==
    {i \in DOMAIN ret.column_diff :
        ret.column_diff[i].Table = t /\ ret.column_diff[i].Column = col}
DatatypeDiffOf(t, col) ==
    {i \in DOMAIN ret.datatype_diff :
        ret.datatype_diff[i].Table = t /\ ret.datatype_diff[i].Column = col}

\* table t has exactly one row in the table differences, labelled `label`
OneTableRow(t, label) ==
    /\ Cardinality(TableDiffOf(t)) = 1
    /\ \A i \in TableDiffOf(t) : ret.table_diff[i].Difference = label

\* C1 as stated: compare_table_differences labels a table that exists only in
\* the clone schema as added (in clone) and a table that exists only in the
\* source schema as dropped (from clone); no table has both labels and no table
\* present in both schemas is returned.
C1_AddedInCloneAsClaimed ==
    (TableCall \/ ValidationDone) =>
        \A t \in TableNames :
            /\ t \in CloneTables \ SourceTables => OneTableRow(t, TableAdded)
            /\ t \in SourceTables \ CloneTables => OneTableRow(t, TableDropped)
            /\ t \in SourceTables \cap CloneTables => TableDiffOf(t) = {}

\* C1 amended: compare_table_differences labels a table that exists only in
\* the clone schema 'Missing in source - Table Dropped' and a table that exists
\* only in the source schema 'Missing in clone - Table Added'; every such table
\* has exactly one row (never both labels), and a table present in both
\* schemas, or in neither, is not returned.
C1_TableDifferenceLabels ==
    (TableCall \/ ValidationDone) =>
        \A t \in TableNames :
            /\ t \in CloneTables \ SourceTables => OneTableRow(t, TableDropped)
            /\ t \in SourceTables \ CloneTables => OneTableRow(t, TableAdded)
            /\ t \in SourceTables \cap CloneTables => TableDiffOf(t) = {}
            /\ t \notin SourceTables \cup CloneTables => TableDiffOf(t) = {}

\* C1 witness: a table diff was returned for a pair of schemas with a table
\* only in the clone and another table only in the source.
C1_Witness ==
    /\ TableCall
    /\ CloneTables \ SourceTables # {}
    /\ SourceTables \ CloneTables # {}
    /\ Len(ret.table_diff) = 2

\* column col of common table t has exactly one row in the column differences,
\* labelled `label` with the given types, and no row in the type differences
OneColumnRow(t, col, label, source_type, clone_type) ==
    /\ Cardinality(ColumnDiffOf(t, col)) = 1
    /\ \A i \in ColumnDiffOf(t, col) :
        /\ ret.column_diff[i].Difference = label
        /\ ret.column_diff[i].SourceDataType = source_type
        /\ ret.column_diff[i].CloneDataType = clone_type
    /\ DatatypeDiffOf(t, col) = {}

OneDatatypeRow(t, col, source_type, clone_type) ==
    /\ Cardinality(DatatypeDiffOf(t, col)) = 1
    /\ \A i \in DatatypeDiffOf(t, col) :
        /\ ret.datatype_diff[i].Difference = DataTypeChanged
        /\ ret.datatype_diff[i].SourceDataType = source_type
        /\ ret.datatype_diff[i].CloneDataType = clone_type
    /\ ColumnDiffOf(t, col) = {}

\* the classification of every column of every common table, with the labels
\* given to a column absent from the source and to one absent from the clone
ColumnsClassified(absent_in_source, absent_in_clone) ==
    \A t \in SourceTables \cap CloneTables :
        LET sc == catalog[ret.source_schema][t].cols
            cc == catalog[ret.clone_schema][t].cols
        IN  \A col \in ColNames :
                /\ (sc[col] = NoCol /\ cc[col] # NoCol) =>
                        OneColumnRow(t, col, absent_in_source, None, cc[col])
                /\ (sc[col] # NoCol /\ cc[col] = NoCol) =>
                        OneColumnRow(t, col, absent_in_clone, sc[col], None)
                /\ (sc[col] # NoCol /\ cc[col] # NoCol /\ sc[col] # cc[col]) =>
                        OneDatatypeRow(t, col, sc[col], cc[col])
                /\ (sc[col] = cc[col]) =>
                        ColumnDiffOf(t, col) = {} /\ DatatypeDiffOf(t, col) = {}

\* C2 as stated: for every common table and every column in the union of its
\* two column sets, compare_column_differences labels a column absent from the
\* source as column added (in clone), a column absent from the clone as column
\* dropped, a column present in both with unequal type strings as type
\* changed, and gives no row to a column present in both with equal types.
C2_ColumnAddedAsClaimed ==
    (ColumnCall \/ ValidationDone) => ColumnsClassified(ColumnAdded, ColumnDropped)

\* C2 amended: as stated, except that a column absent from the source is
\* labelled 'Missing in source - Column Dropped' and a column absent from the
\* clone 'Missing in clone - Column Added'.
C2_ColumnDifferenceLabels ==
    (ColumnCall \/ ValidationDone) => ColumnsClassified(ColumnDropped, ColumnAdded)

\* C2 witness: a column diff was returned for a common table with a column
\* absent from the source and a column whose type changed.
C2_Witness ==
    /\ ColumnCall
    /\ \E t \in SourceTables \cap CloneTables :
        /\ \E col \in ColNames :
            /\ catalog[ret.source_schema][t].cols[col] = NoCol
            /\ ColumnDiffOf(t, col) # {}
        /\ \E col \in ColNames : DatatypeDiffOf(t, col) # {}

\* the two schemas of the call have the same tables with the same columns and
\* the same declared types
IdenticalSchemas ==
    \A t \in TableNames : catalog[ret.source_schema][t] = catalog[ret.clone_schema][t]

\* C3: for two schemas with identical table sets and identical column
\* definitions (the source schema itself included), compare_table_differences
\* returns no rows and compare_column_differences returns two empty results.
C3_IdenticalSchemasNoDifferences ==
    (ret.op # "none" /\ IdenticalSchemas) =>
        /\ (TableCall \/ ValidationDone) => ret.table_diff = <<>>
        /\ (ColumnCall \/ ValidationDone) =>
                ret.column_diff = <<>> /\ ret.datatype_diff = <<>>

\* C3 witness: both diffs ran to completion on two different schemas that hold
\* the same two tables with the same definitions.
C3_Witness ==
    /\ ValidationDone
    /\ ret.source_schema # ret.clone_schema
    /\ IdenticalSchemas
    /\ SourceTables = TableNames
    /\ Len(ret.described) = 4

\* C4: every row of either result of compare_column_differences names a table
\* that exists in both schemas, and a table missing from either schema is
\* never described.
C4_OnlyCommonTables ==
    ret.op \in {"compare_column_differences", "run_validation"} =>
        /\ \A i \in DOMAIN ret.column_diff :
                ret.column_diff[i].Table \in SourceTables \cap CloneTables
        /\ \A i \in DOMAIN ret.datatype_diff :
                ret.datatype_diff[i].Table \in SourceTables \cap CloneTables
        /\ \A i \in DOMAIN ret.described :
                /\ ret.described[i][1] \in {ret.source_schema, ret.clone_schema}
                /\ ret.described[i][2] \in SourceTables \cap CloneTables

\* C4 witness: column differences were returned for a common table while
\* another table exists in the source schema only.
C4_Witness ==
    /\ ColumnCall
    /\ SourceTables \ CloneTables # {}
    /\ SourceTables \cap CloneTables # {}
    /\ ret.column_diff # <<>>
    /\ ret.described # <<>>

\* the DESCRIBE that made run_validation fail was of this table
ValidationAborted == ret.op = "run_validation" /\ ret.status = ValidationFailed
FailedTable == ret.described[Len(ret.described)][2]

\* C21: in schema validation a failing DESCRIBE of one common table is
\* isolated to that table: the table differences already computed and the
\* column and type differences of the other common tables are still returned
\* with the status line.
C21_DescribeFailureIsolated ==
    ValidationAborted =>
        /\ \A t \in (SourceTables \cup CloneTables) \ (SourceTables \cap CloneTables) :
                TableDiffOf(t) # {}
        /\ \A t \in (SourceTables \cap CloneTables) \ {FailedTable} :
            LET source_cols == DescribeTable(catalog, ret.source_schema, t)
                clone_cols == DescribeTable(catalog, ret.clone_schema, t)
            IN  \A col \in DOMAIN source_cols \cup DOMAIN clone_cols :
                    /\ col \notin DOMAIN source_cols \cap DOMAIN clone_cols =>
                            ColumnDiffOf(t, col) # {}
                    /\ (col \in DOMAIN source_cols \cap DOMAIN clone_cols
                            /\ source_cols[col] # clone_cols[col]) =>
                            DatatypeDiffOf(t, col) # {}

\* the two outputs of column diffing are separate: only Added/Dropped rows in
\* the one, only TypeChanged rows in the other, no (table, column) pair in
\* both or twice in either
OutputsSeparate ==
    /\ \A i \in DOMAIN ret.column_diff :
            ret.column_diff[i].Difference \in {ColumnAdded, ColumnDropped}
    /\ \A i \in DOMAIN ret.datatype_diff :
            ret.datatype_diff[i].Difference = DataTypeChanged
    /\ \A t \in TableNames, col \in ColNames :
        /\ Cardinality(ColumnDiffOf(t, col)) + Cardinality(DatatypeDiffOf(t, col)) <= 1
RowsOfType(validation_type) ==
    {i \in DOMAIN ret.combined_df : ret.combined_df[i].Validation_Type = validation_type}

\* C23 as stated: the two outputs of column diffing stay separate (only
\* Added/Dropped rows in the column differences, only TypeChanged rows in the
\* data-type differences, no (table, column) pair in both or twice in either)
\* and the two result sets are never merged into one table.
C23_NeverMerged ==
    (ColumnCall \/ ValidationDone) =>
        /\ OutputsSeparate
        /\ ~(RowsOfType(ColumnDifferences) # {} /\ RowsOfType(DataTypeDifferences) # {})

\* C23 amended: the column-differences result holds only Added/Dropped rows and
\* the data-type-differences result only TypeChanged rows, no (table, column)
\* pair is in both or twice in either; run_validation returns the two results
\* separately and, next to them, one combined table made of the rows of the
\* table differences, the column differences and the data-type differences, in
\* this order, each row tagged with its Validation_Type.
C23_SeparateOutputsAndCombined ==
    (ColumnCall \/ ValidationDone) =>
        /\ OutputsSeparate
        /\ ValidationDone =>
            LET nt == Len(ret.table_diff)
                nc == Len(ret.column_diff)
                nd == Len(ret.datatype_diff)
            IN  /\ Len(ret.combined_df) = nt + nc + nd
                /\ \A i \in 1..nt :
                    /\ ret.combined_df[i].Validation_Type = TableDifferences
                    /\ ret.combined_df[i].Table = ret.table_diff[i].Table
                    /\ ret.combined_df[i].Difference = ret.table_diff[i].Difference
                /\ \A i \in 1..nc :
                    /\ ret.combined_df[nt + i].Validation_Type = ColumnDifferences
                    /\ ret.combined_df[nt + i].Table = ret.column_diff[i].Table
                    /\ ret.combined_df[nt + i].Column = ret.column_diff[i].Column
                    /\ ret.combined_df[nt + i].Difference = ret.column_diff[i].Difference
                /\ \A i \in 1..nd :
                    /\ ret.combined_df[nt + nc + i].Validation_Type = DataTypeDifferences
                    /\ ret.combined_df[nt + nc + i].Table = ret.datatype_diff[i].Table
                    /\ ret.combined_df[nt + nc + i].Column = ret.datatype_diff[i].Column
                    /\ ret.combined_df[nt + nc + i].Difference = DataTypeChanged

\* C23 witness: a validation returned a column difference and a type
\* difference, separately and both in the combined table.
C23_Witness ==
    /\ ValidationDone
    /\ ret.column_diff # <<>>
    /\ ret.datatype_diff # <<>>
    /\ RowsOfType(ColumnDifferences) # {}
    /\ RowsOfType(DataTypeDifferences) # {}

(***************************************************************************)
(* Properties of KPI validation.                                           *)
(***************************************************************************)
KpiCall == kpi.op \in {"validate_kpis", "validate_selected_kpis"}
KpiEvaluated == KpiCall /\ kpi.status = KpiValidationCompleted
KpiShortCircuited ==
    KpiCall /\ kpi.kpis # <<>> /\ ~(kpi.source_has_table /\ kpi.target_has_table)
FormulasExecuted ==
    {i \in DOMAIN kpi.executed : kpi.executed[i].stmt \in {"source_query", "clone_query"}}

\* both values are numbers whose difference, taken exactly, is 0
NumericValue(v) == v.t \in {"int", "float"}
ExactNum(v) == IF v.t = "int" THEN v.lo ELSE v.num
ExactDen(v) == IF v.t = "int" THEN 1 ELSE v.den
SourceMinusCloneIsZero(s, c) ==
    s.hi = c.hi /\ ExactNum(s) * ExactDen(c) = ExactNum(c) * ExactDen(s)

\* C5 as stated: every row of per-KPI evaluation (validate_kpis and
\* validate_selected_kpis) has status Match if and only if both values are
\* numeric and source minus clone is exactly 0, or at least one value is not
\* numeric and the stringified values are equal; otherwise it is Mismatch.
C5_MatchIffNoDifference ==
    KpiEvaluated =>
        \A i \in DOMAIN kpi.results :
            LET r == kpi.results[i]
                s == r.Source_Value
                c == r.Clone_Value
            IN  /\ r.Status \in {KpiMatch, KpiMismatch}
                /\ r.Status = KpiMatch <=>
                        IF NumericValue(s) /\ NumericValue(c)
                            THEN SourceMinusCloneIsZero(s, c)
                        ELSE Str(s) = Str(c)

\* source minus clone, taken exactly, as a fraction, and the percent of it in
\* hundredths (source below 2^53 and not 0)
ExactDifferenceNum(s, c) == ExactNum(s) * ExactDen(c) - ExactNum(c) * ExactDen(s)
ExactDifferenceDen(s, c) == ExactDen(s) * ExactDen(c)
PercentHundredths(s, c) ==
    RoundHalfEven(ExactDifferenceNum(s, c) * ExactDen(s) * 10000,
                  ExactDifferenceDen(s, c) * ExactNum(s))
SourceIsZero(s) == s.hi = 0 /\ ExactNum(s) = 0

\* C17 as stated: in every row whose two values are numeric the reported
\* difference is source minus clone and the reported percent is
\* difference / source * 100, infinite when source is exactly 0; 100 and 100
\* give difference 0 and Match, 100 and 80 give 20, 20% and Mismatch, 0 and 0
\* give Match with an infinite percent.
C17_DifferenceIsSourceMinusClone ==
    KpiEvaluated =>
        \A i \in DOMAIN kpi.results :
            LET r == kpi.results[i]
                s == r.Source_Value
                c == r.Clone_Value
            IN  NumericValue(s) /\ NumericValue(c) =>
                    /\ r.Difference.t = "float"
                    /\ r.Difference.hi = s.hi - c.hi
                    /\ r.Difference.num * ExactDifferenceDen(s, c)
                            = ExactDifferenceNum(s, c) * r.Difference.den
                    /\ SourceIsZero(s) => r.Diff_Pct = PyString("inf%")
                    /\ (s.hi = 0 /\ c.hi = 0 /\ ~SourceIsZero(s)) =>
                            r.Diff_Pct = PyString(FloatStr(PyFloat(0, PercentHundredths(s, c), 100)) \o "%")
                    /\ (s = PyInt(0, 100) /\ c = PyInt(0, 100)) => r.Status = KpiMatch
                    /\ (s = PyInt(0, 100) /\ c = PyInt(0, 80)) =>
                            /\ r.Diff_Pct = PyString("20.0%")
                            /\ r.Status = KpiMismatch
                    /\ (s = PyInt(0, 0) /\ c = PyInt(0, 0)) => r.Status = KpiMatch

\* the side(s) the short-circuit message has to name
FailingSides ==
    IF ~kpi.source_has_table /\ ~kpi.target_has_table THEN "both schemas"
    ELSE IF ~kpi.source_has_table THEN "source schema"
    ELSE "target schema"

\* C6: when the ORDER_DATA probe fails on the source schema, the target schema
\* or both, every fetched KPI definition yields exactly one row, in order, with
\* status Error and a message naming the failing side(s), and no KPI formula is
\* executed in that call; a formula is executed only in a call whose two probes
\* both succeeded, and after both of them.
C6_ProbeFailureShortCircuits ==
    /\ KpiShortCircuited =>
        /\ Len(kpi.results) = Len(kpi.kpis)
        /\ \A i \in DOMAIN kpi.results :
            /\ kpi.results[i].KPI_ID = kpi.kpis[i].id
            /\ kpi.results[i].KPI_Name = kpi.kpis[i].name
            /\ kpi.results[i].Status = KpiError
            /\ kpi.results[i].Source_Value
                    = PyString("ERROR: ORDER_DATA table missing in " \o FailingSides)
            /\ kpi.results[i].Clone_Value = kpi.results[i].Source_Value
        /\ FormulasExecuted = {}
    /\ KpiCall =>
        \A i \in FormulasExecuted :
            /\ kpi.source_has_table /\ kpi.target_has_table
            /\ \E j, k \in 1..(i - 1) :
                /\ kpi.executed[j].stmt = "probe_source"
                /\ kpi.executed[k].stmt = "probe_target"

\* C6 witness: a call on a warehouse whose target schema alone lacks
\* ORDER_DATA returned two Error rows naming the target schema.
C6_Witness ==
    /\ KpiShortCircuited
    /\ kpi.source_has_table /\ ~kpi.target_has_table
    /\ Len(kpi.results) = 2
    /\ \A i \in DOMAIN kpi.results :
        /\ kpi.results[i].Status = KpiError
        /\ kpi.results[i].Clone_Value
                = PyString("ERROR: ORDER_DATA table missing in target schema")

\* the value a side has to report for the warehouse's answer on it
ReportedValue(answer) ==
    IF answer.kind = "error" THEN PyString("QUERY_ERROR: " \o answer.message)
    ELSE IF answer.kind = "row" THEN answer.value
    ELSE PyNone
\* the formula statements of KPI i sent in the call, in order
FormulaStatements(i) ==
    [j \in 1..2 |-> kpi.executed[CHOOSE n \in FormulasExecuted :
                        /\ kpi.executed[n].kpi = i
                        /\ Cardinality({m \in FormulasExecuted :
                                m < n /\ kpi.executed[m].kpi = i}) = j - 1].stmt]

\* C19: in per-KPI evaluation the two sides are isolated: each KPI has both its
\* source and its clone query executed whatever the other side did, a side
\* whose query raises reports QUERY_ERROR: <message> and the other side's
\* value is reported unchanged, and the result has one row per fetched KPI
\* definition, in order.
C19_SidesAreIsolated ==
    KpiEvaluated =>
        /\ Len(kpi.results) = Len(kpi.kpis)
        /\ \A i \in DOMAIN kpi.kpis :
            /\ kpi.results[i].KPI_ID = kpi.kpis[i].id
            /\ kpi.results[i].KPI_Name = kpi.kpis[i].name
            /\ Cardinality({n \in FormulasExecuted : kpi.executed[n].kpi = i}) = 2
            /\ FormulaStatements(i) = <<"source_query", "clone_query">>
            /\ kpi.results[i].Source_Value = ReportedValue(kpi.answers[i].source)
            /\ kpi.results[i].Clone_Value = ReportedValue(kpi.answers[i].clone)

\* C19 witness: a call with two KPIs in which the first failed on the source
\* only and the second on the clone only, each reporting the other side's 100.
C19_Witness ==
    /\ KpiEvaluated
    /\ Len(kpi.results) = 2
    /\ kpi.answers[1].source = Raises(SyntaxError)
    /\ kpi.answers[1].clone = FirstRow(PyInt(0, 100))
    /\ kpi.results[1].Source_Value = PyString("QUERY_ERROR: " \o SyntaxError)
    /\ kpi.results[1].Clone_Value = PyInt(0, 100)
    /\ kpi.answers[2].source = FirstRow(PyInt(0, 100))
    /\ kpi.answers[2].clone = Raises(UnknownColumn)
    /\ kpi.results[2].Source_Value = PyInt(0, 100)
    /\ kpi.results[2].Clone_Value = PyString("QUERY_ERROR: " \o UnknownColumn)

\* C20: called on the same warehouse with the same fetched KPI definitions
\* (all nine names selected), validate_kpis and validate_selected_kpis send the
\* same qualified queries and return identical result rows: the same source
\* value, clone value, difference, percent and status for every formula text.
C20_HandlersShareOneCore ==
    (kpi.op = "both" /\ kpi.fetched_by_all = kpi.fetched_by_selected) =>
        /\ FormulaQueries(kpi.all.executed) = FormulaQueries(kpi.selected.executed)
        /\ kpi.all.results = kpi.selected.results
        /\ kpi.all.status = kpi.selected.status

\* the names the ticked checkboxes stand for: the checkbox at position i is
\* the i-th name of the fixed list
SelectedCall == kpi.op = "validate_selected_kpis"
TickedNames ==
    {KpiNames[i] : i \in {i \in DOMAIN kpi.kpi_selections : kpi.kpi_selections[i]}}
\* the stored definitions with a ticked name, by their position in ORDER_KPIS
AllowedRows == {i \in DOMAIN kpi.order_kpis : kpi.order_kpis[i].name \in TickedNames}

\* C24: validate_selected_kpis evaluates only KPI definitions whose KPI_NAME is
\* in the allow-list of the ticked checkboxes, and with no checkbox ticked it
\* returns an empty result with the 'No KPIs selected' status and sends no
\* statement to the warehouse.
C24_OnlySelectedKpisEvaluated ==
    SelectedCall =>
        /\ \A i \in DOMAIN kpi.results : kpi.results[i].KPI_Name \in TickedNames
        /\ Cardinality(FormulasExecuted) <= 2 * Cardinality(AllowedRows)
        /\ \A n \in FormulasExecuted :
            \E i \in AllowedRows, schema \in {SourceSchema, TargetSchema} :
                kpi.executed[n].sql
                    = QualifySelectedKpi(kpi.order_kpis[i].sql, Database, schema)
        /\ kpi.status = KpiValidationCompleted =>
                Len(kpi.results) = Cardinality(AllowedRows)
        /\ TickedNames = {} =>
            /\ kpi.results = <<>>
            /\ kpi.status = NoKpisSelected
            /\ kpi.executed = <<>>

\* C24 witness: of two stored KPIs only the first was ticked, and only it was
\* evaluated.
C24_Witness ==
    /\ SelectedCall
    /\ kpi.order_kpis = <<TotalOrders, TotalRevenue>>
    /\ kpi.kpi_selections = <<TRUE, FALSE>>
    /\ kpi.status = KpiValidationCompleted
    /\ Len(kpi.results) = 1
    /\ kpi.results[1].KPI_Name = "Total Orders"
    /\ Cardinality(FormulasExecuted) = 2

\* the statements of the call after the fetch of the KPI definitions
AfterFetch == {n \in DOMAIN kpi.executed : kpi.executed[n].stmt # "fetch"}
EmptyWithoutFailure == {NoKpisFound, NoKpisSelected, NoMatchingKpis}

\* C25: if reading the KPI definitions from ORDER_KPIS fails, KPI validation
\* ends with an empty result table and one top-level status message, and
\* neither probes ORDER_DATA nor executes any formula; no other failing
\* warehouse statement gives an empty result: with definitions fetched, a
\* failing probe or formula still leaves one row per definition.
C25_OnlyFetchFailureAborts ==
    KpiCall =>
        /\ (kpi.fetch_raises /\ kpi.status # NoKpisSelected) =>
            /\ kpi.results = <<>>
            /\ kpi.status = "KPI validation failed: Object 'ORDER_KPIS' does not exist"
            /\ AfterFetch = {}
            /\ Len(kpi.executed) = 1
        /\ kpi.results = <<>> => (kpi.fetch_raises \/ kpi.status \in EmptyWithoutFailure)
        /\ (~kpi.fetch_raises /\ kpi.kpis # <<>>) => Len(kpi.results) = Len(kpi.kpis)

\* C25 witness: a call whose fetch from ORDER_KPIS failed returned no rows
\* after sending the fetch only.
C25_Witness ==
    /\ KpiCall
    /\ kpi.fetch_raises
    /\ kpi.results = <<>>
    /\ Len(kpi.executed) = 1
    /\ kpi.executed[1].stmt = "fetch"

\* the evaluated KPIs of a call whose two ORDER_DATA probes passed
PastPrecondition ==
    /\ kpi.op \in {"validate_kpis", "validate_selected_kpis"}
    /\ kpi.source_has_table
    /\ kpi.target_has_table
\* the two sides of KPI i failed with one error text, or both returned no row
SameFailure(i) ==
    \/ /\ kpi.answers[i].source.kind = "error"
       /\ kpi.answers[i].clone.kind = "error"
       /\ kpi.answers[i].source.message = kpi.answers[i].clone.message
    \/ /\ kpi.answers[i].source.kind = "norow"
       /\ kpi.answers[i].clone.kind = "norow"

\* C29: once the ORDER_DATA precondition passed, every KPI row has status
\* Match or Mismatch and never Error, also when one or both sides hold a
\* QUERY_ERROR sentinel or None (zero rows): two sides that failed with the
\* same error text, or that both returned zero rows, are classified Match
\* with Difference and Diff % equal to "N/A".
C29_SentinelsAreCompared ==
    PastPrecondition =>
        \A i \in DOMAIN kpi.results :
            /\ kpi.results[i].Status \in {KpiMatch, KpiMismatch}
            /\ SameFailure(i) =>
                /\ kpi.results[i].Status = KpiMatch
                /\ kpi.results[i].Difference = NotAvailable
                /\ kpi.results[i].Diff_Pct = NotAvailable

\* both sides of the first KPI raised the same error, both sides of the
\* second returned no row, and a row was written for each
C29_Witness ==
    /\ PastPrecondition
    /\ Len(kpi.results) = 2
    /\ kpi.answers[1].source = Raises(SyntaxError)
    /\ kpi.answers[1].clone = Raises(SyntaxError)
    /\ kpi.answers[2].source = NoRow
    /\ kpi.answers[2].clone = NoRow

(***************************************************************************)
(* Properties of test-case validation.                                     *)
(***************************************************************************)
TestCall == tc.op = "validate_test_cases"

\* t is s without its leading and trailing whitespace
IsTrimOf(t, s) ==
    \E a \in 0..Len(s), b \in 0..Len(s) :
        /\ a <= b
        /\ t = SubSeq(s, a + 1, b)
        /\ \A k \in 1..a : SubSeq(s, k, k) \in Whitespace
        /\ \A k \in (b + 1)..Len(s) : SubSeq(s, k, k) \in Whitespace
        /\ t # "" => /\ Head(t) \notin Whitespace
                     /\ SubSeq(t, Len(t), Len(t)) \notin Whitespace

\* the cases that passed the access check and whose SQL executed without error
ExecutedCases == {i \in DOMAIN tc.answers : tc.answers[i].kind \in {"row", "norow"}}

\* C7: for every test case that passes the access check and whose SQL executes
\* without error, the status is Pass if and only if the stringified actual
\* result equals the whitespace-trimmed expected result exactly (the actual
\* result is not trimmed, the comparison is case-sensitive); otherwise Fail.
C7_PassIffEqualsTrimmedExpected ==
    TestCall =>
        \A i \in ExecutedCases :
            LET row == tc.results[i]
                actual == IF tc.answers[i].kind = "row"
                            THEN Str(tc.answers[i].value) ELSE "0"
            IN  /\ row.ACTUAL_RESULT = actual
                /\ IsTrimOf(row.EXPECTED_RESULT, Str(tc.test_cases[i].expected))
                /\ row.STATUS \in {Pass, Fail}
                /\ row.STATUS = Pass <=> actual = row.EXPECTED_RESULT

\* C7 witness: one call passed a case whose stored expected value carries
\* surrounding whitespace and failed a case whose actual result does.
C7_Witness ==
    /\ TestCall
    /\ \E i, j \in ExecutedCases :
        /\ tc.test_cases[i].expected = PyString(" 42 ")
        /\ tc.answers[i] = FirstRow(PyInt(0, 42))
        /\ tc.results[i].STATUS = Pass
        /\ tc.test_cases[j].expected = PyString(" 42 ")
        /\ tc.answers[j] = FirstRow(PyString(" 42"))
        /\ tc.results[j].STATUS = Fail

\* the status class each kind of answer leads to
StatusesOf(answer) ==
    IF answer.kind = "denied" THEN {PermissionError}
    ELSE IF answer.kind = "error" THEN {ExecutionError}
    ELSE {Pass, Fail}

\* C8: for every non-empty list of test cases and every combination of
\* per-case outcomes, validate_test_cases returns exactly one row per input
\* case, in input order, and the row of a case is the row that case gets when
\* it is validated alone with the same answers: a permission or execution
\* failure of one case never removes or changes the row of another.
C8_OneRowPerCaseIsolated ==
    (TestCall /\ tc.test_cases # <<>>) =>
        /\ Len(tc.results) = Len(tc.test_cases)
        /\ \A i \in DOMAIN tc.test_cases :
            /\ tc.results[i].TEST_CASE = tc.test_cases[i].abbrev
            /\ tc.results[i].STATUS \in StatusesOf(tc.answers[i])
            /\ tc.results[i]
                = validate_test_cases(Database, TestSchema, <<tc.test_cases[i]>>,
                                      <<tc.answers[i]>>).results[1]

\* C8 witness: the first case was denied access, the second one passed.
C8_Witness ==
    /\ TestCall
    /\ Len(tc.results) = 2
    /\ tc.answers[1] = Denied
    /\ tc.results[1].STATUS = PermissionError
    /\ tc.results[2].STATUS = Pass

\* the cases that passed the access check and whose SQL returned no row
NoRowCases == {i \in DOMAIN tc.answers : tc.answers[i].kind = "norow"}

\* C18: when a test case's qualified SQL executes successfully but returns no
\* row, the actual result recorded is the string "0"; the case has status Fail
\* for every expected value other than "0" (expected "42" gives Fail) and is
\* never reported as an execution error.
C18_NoRowIsZero ==
    TestCall =>
        \A i \in NoRowCases :
            LET row == tc.results[i] IN
            /\ row.ACTUAL_RESULT = "0"
            /\ row.STATUS # ExecutionError
            /\ row.EXPECTED_RESULT # "0" => row.STATUS = Fail
            /\ row.EXPECTED_RESULT = "42" => row.STATUS = Fail

\* C18 witness: a case expecting 42 whose query returned no row failed with
\* the actual result "0", next to a case expecting "0" that passed on no row.
C18_Witness ==
    /\ TestCall
    /\ \E i, j \in NoRowCases :
        /\ tc.test_cases[i].expected = PyString(" 42 ")
        /\ tc.results[i].EXPECTED_RESULT = "42"
        /\ tc.results[i].ACTUAL_RESULT = "0"
        /\ tc.results[i].STATUS = Fail
        /\ tc.test_cases[j].expected = PyString("0")
        /\ tc.results[j].STATUS = Pass

\* the statements of case i sent in the call, by kind
ProbesOf(i) ==
    {n \in DOMAIN tc.executed : tc.executed[n].case = i /\ tc.executed[n].stmt = "probe"}
AssertionsOf(i) ==
    {n \in DOMAIN tc.executed : tc.executed[n].case = i /\ tc.executed[n].stmt = "assertion"}

\* C22: a test case whose trial select fails gets a PermissionError row and its
\* assertion SQL is never executed; within one case the access probe precedes
\* the assertion SQL, and the assertion SQL is executed at most once.
C22_ProbeBeforeAssertion ==
    TestCall =>
        \A i \in DOMAIN tc.test_cases :
            /\ tc.answers[i].kind = "denied" =>
                /\ tc.results[i].STATUS = PermissionError
                /\ AssertionsOf(i) = {}
            /\ Cardinality(AssertionsOf(i)) <= 1
            /\ \A n \in AssertionsOf(i) : \E m \in ProbesOf(i) : m < n
            /\ \A n \in AssertionsOf(i) :
                    tc.executed[n].sql = QualifyTestSql(tc.test_cases[i].sql, Database,
                                            TestSchema, tc.test_cases[i].table_name)

\* C22 witness: in one call the first case was denied and sent its probe only,
\* the second case sent its probe and then its assertion SQL.
C22_Witness ==
    /\ TestCall
    /\ Len(tc.test_cases) = 2
    /\ tc.answers[1] = Denied
    /\ ProbesOf(1) # {} /\ AssertionsOf(1) = {}
    /\ tc.answers[2].kind \in {"row", "norow", "error"}
    /\ Cardinality(AssertionsOf(2)) = 1
    /\ Len(tc.executed) = 3

(***************************************************************************)
(* Properties of clone_schema.                                             *)
(***************************************************************************)
CloneCall == cl.op = "clone_schema"
CloneReturned == CloneCall /\ ~cl.result.raised
CloneCommands ==
    {i \in DOMAIN cl.result.executed : cl.result.executed[i].stmt = "clone"}
SourceExisted == cl.before[cl.source_schema].exists

\* C11 as stated: if the source schema does not exist in the database,
\* clone_schema returns (False, message, empty summary) and issues no CREATE OR
\* REPLACE SCHEMA ... CLONE command; the clone command is issued only after the
\* existence check found the source schema itself, not merely another schema
\* whose name matches the LIKE pattern.
C11_NoCloneOfMissingSource ==
    CloneReturned =>
        /\ ~SourceExisted =>
            /\ cl.result.ok = FALSE
            /\ cl.result.summary = <<>>
            /\ CloneCommands = {}
        /\ CloneCommands # {} => SourceExisted

\* the call went through every step: the source existed, no step raised and
\* the verification saw the target schema
CloneCompleted ==
    /\ CloneReturned
    /\ SourceExisted
    /\ cl.env.fail_at = "none"
    /\ cl.env.verify_sees
    /\ cl.schemas[cl.target_schema].exists

\* C12: when the clone command succeeded and the target schema exists,
\* clone_schema returns ok = True with a one-row summary that reports the
\* number of tables enumerated in the source and in the target, and whose
\* status is Success if and only if the two counts are equal, and Partial
\* Success otherwise.
C12_SummaryStatusByCounts ==
    CloneCompleted =>
        /\ cl.result.ok = TRUE
        /\ Len(cl.result.summary) = 1
        /\ LET row == cl.result.summary[1]
               seen == cl.schemas[cl.target_schema].tables \cap cl.env.visible
           IN  /\ row.Source_Schema = cl.source_schema
               /\ row.Clone_Schema = cl.target_schema
               /\ row.Source_Tables = Cardinality(cl.before[cl.source_schema].tables)
               /\ row.Cloned_Tables = Cardinality(seen)
               /\ row.Status \in {CloneSuccess, ClonePartialSuccess}
               /\ row.Status = CloneSuccess <=> row.Source_Tables = row.Cloned_Tables

\* C12 witness: a clone of a schema with two tables whose target enumeration
\* saw one of them returned ok with the counts 2 and 1 and Partial Success.
C12_Witness ==
    /\ CloneCompleted
    /\ cl.result.ok
    /\ cl.result.summary[1].Source_Tables = 2
    /\ cl.result.summary[1].Cloned_Tables = 1
    /\ cl.result.summary[1].Status = ClonePartialSuccess

\* whether the call gets as far as the step the connection fails at
FailurePointReached ==
    CASE cl.env.fail_at \in {"cursor", "check"} -> TRUE
      [] cl.env.fail_at = "clone" -> ShowSchemasLike(cl.before, cl.source_schema) # {}
      [] cl.env.fail_at = "verify" -> SourceExisted
      [] cl.env.fail_at \in {"source_tables", "clone_tables"} ->
            SourceExisted /\ cl.env.verify_sees
      [] OTHER -> FALSE

\* C13 as stated: at every point of clone_schema at which the connection or a
\* warehouse command can raise (obtaining the cursor, the source existence
\* check, the clone command, the target verification, either table
\* enumeration) the call returns (False, "Clone failed: <message>", empty
\* summary) instead of propagating the exception.
C13_EveryFailureReturned ==
    CloneCall =>
        /\ ~cl.result.raised
        /\ FailurePointReached =>
            /\ cl.result.ok = FALSE
            /\ cl.result.message = "Clone failed: " \o cl.env.message
            /\ cl.result.summary = <<>>

\* a call of clone_schema, directly or through the clone button
AnyCloneCall == cl.op \in {"clone_schema", "execute_clone"}
CloneStatements ==
    {n \in DOMAIN cl.result.executed : cl.result.executed[n].stmt = "clone"}

C27_NoDifferencesAfterClone ==
    ret.op = "compare_after_clone" =>
        /\ ret.table_diff = <<>>
        /\ ret.column_diff = <<>>
        /\ ret.datatype_diff = <<>>

(***************************************************************************)
(* Properties of the catalog client.                                       *)
(***************************************************************************)
CatalogCall == client.op \notin {"none", "session"}

\* an underlying error happened during the call: the handle gave no cursor, or
\* a statement the call executed failed
UnderlyingError ==
    \/ client.conn # OpenConnection
    \/ client.fail_at = 1
    \/ /\ client.fail_at = 2
       /\ client.op \in {"get_test_case_tables", "get_test_cases"}
       /\ client.test_cases_table.exists

\* C14 as stated: every catalog client operation fails soft: for any underlying
\* error, including an unusable connection handle, it returns an empty
\* collection (False for the access probe) and never propagates an exception.
C14_CatalogClientFailsSoft ==
    CatalogCall =>
        /\ ~client.result.raised
        /\ UnderlyingError =>
            client.result.value
                = IF client.op = "verify_table_access" THEN FALSE ELSE <<>>

(***************************************************************************)
(* Properties of SQL qualification.                                        *)
(***************************************************************************)
\* the length of the leading run of word characters of s
RECURSIVE WordRun(_)
WordRun(s) == IF s = "" \/ ~IsWordChar(Head(s)) THEN 0 ELSE 1 + WordRun(Tail(s))

\* the tokens of a SQL text: maximal runs of word characters (identifiers,
\* keywords, numbers) and single other characters
RECURSIVE Tokens(_)
Tokens(s) ==
    IF s = "" THEN <<>>
    ELSE LET n == IF IsWordChar(Head(s)) THEN WordRun(s) ELSE 1
         IN  <<SubSeq(s, 1, n)>> \o Tokens(SubSeq(s, n + 1, Len(s)))

\* the positions of the whole-word occurrences of the table name, ignoring case
WholeWordOccurrences(tokens, name) ==
    {i \in DOMAIN tokens : EqualsIgnoringCase(tokens[i], name)}

\* the text in which the tokens at `positions` are replaced by repl
ReplaceTokens(tokens, positions, repl) ==
    Concat([i \in DOMAIN tokens |-> IF i \in positions THEN repl ELSE tokens[i]])

QualifiedName == Database \o "." \o q.schema \o "." \o q.table_name

\* C9: every qualification of the engine (validate_kpis, validate_selected_kpis,
\* validate_test_cases) replaces every case-insensitive whole-word occurrence
\* of the bare table name by database.schema.table and leaves every other
\* token of the SQL text unchanged.
C9_QualifiesEveryWholeWord ==
    q.path # "none" =>
        LET tokens == Tokens(q.sql)
        IN  q.qualified =
                ReplaceTokens(tokens, WholeWordOccurrences(tokens, q.table_name),
                              QualifiedName)

\* C10: no qualification of the engine rewrites an occurrence of the table
\* name inside a longer identifier: the qualified query is the SQL text with
\* none, some or all of the whole-word occurrences replaced, and every other
\* token (my_order_data_2, ORDER_DATA_2) as it was, on all three paths.
C10_LongerIdentifiersUntouched ==
    q.path # "none" =>
        LET tokens == Tokens(q.sql)
        IN  \E replaced \in SUBSET WholeWordOccurrences(tokens, q.table_name) :
                q.qualified = ReplaceTokens(tokens, replaced, QualifiedName)

(***************************************************************************)
(* Properties of the warehouse under the comparison and validation         *)
(* operations.                                                             *)
(***************************************************************************)
\* C15: after any sequence of compare_table_differences,
\* compare_column_differences, validate_kpis, validate_selected_kpis and
\* validate_test_cases calls the rows of the warehouse's tables are what they
\* were before the first call, whatever SQL text ORDER_KPIS and TEST_CASES hold
C15_ComparisonsAreReadOnly ==
    warehouse.op # "none" => warehouse.rows = warehouse.before

(***************************************************************************)
(* Properties of the top-level handlers.                                   *)
(***************************************************************************)
\* C16: every call of run_validation, validate_kpis, validate_selected_kpis
\* and execute_test_case_validation / validate_test_cases ends, whatever fails
\* in the connection or the warehouse, by returning a status string together
\* with the result tables it had computed; no exception leaves the handler
C16_HandlersAlwaysAnswer ==
    handler.op # "none" =>
        /\ ~handler.raised
        /\ handler.status # ""
        /\ \A i \in DOMAIN handler.computed : handler.tables[i] = handler.computed[i]

\* a call of execute_test_case_validation that got past its two early returns
PastSelectionChecks ==
    /\ handler.op = "execute_test_case_validation"
    /\ handler.conn # NoConnection
    /\ handler.selected_case_names # <<>>
HasStoredCase(name) ==
    \E i \in DOMAIN handler.test_case_data : handler.test_case_data[i].abbrev = name
\* the selected names that match a stored case, in selection order
MatchingNames == SelectSeq(handler.selected_case_names, HasStoredCase)
FirstStoredCase(name) ==
    LET hits == {i \in DOMAIN handler.test_case_data :
                    handler.test_case_data[i].abbrev = name}
    IN  handler.test_case_data[CHOOSE i \in hits : \A j \in hits : i <= j]
\* the rows of the result table, none when no table came back
ResultRows == IF handler.tables = <<>> THEN <<>> ELSE handler.tables[1]

\* the list handed on holds, for each matching name, the first case stored under it
FirstMatchesPassed ==
    /\ Len(handler.selected_test_cases) = Len(MatchingNames)
    /\ \A k \in DOMAIN MatchingNames :
        handler.selected_test_cases[k] = FirstStoredCase(MatchingNames[k])
\* one row per matching name, each the row of the first case stored under it
OneRowPerMatchingName ==
    /\ Len(ResultRows) = Len(MatchingNames)
    /\ \A k \in DOMAIN ResultRows :
        /\ ResultRows[k].TEST_CASE = MatchingNames[k]
        /\ ResultRows[k].EXPECTED_RESULT =
                Strip(Str(FirstStoredCase(MatchingNames[k]).expected))

C28_SessionConsistent ==
    session.op # "none" =>
        /\ session.mirror_tab = (session.conn_state # PyNone)
        /\ session.driftwatch_tab = (session.conn_state # PyNone)
        /\ session.disconnect_btn = ~session.login_btn
        /\ session.op = "handle_logout" =>
            /\ session.conn_state = PyNone
            /\ session.before # PyNone =>
                session.connections[session.before.id].closed

\* two connections were opened one after the other and each disconnected
C28_Witness ==
    /\ session.op = "handle_logout"
    /\ session.before = Connection(2)
    /\ session.connections[1].closed
    /\ session.connections[2].closed

====
